---- MODULE Spec2Model ----
(***************************************************************************)
(* Model of the TerraHelm release resource: the create/update, read,      *)
(* data-source read and delete handlers of provider/resource_terrahelm_   *)
(* release.go, the Helm command constructor and the exec-credential token *)
(* resolver of provider/provider.go.                                       *)
(*                                                                         *)
(* Strings are sequences of lexemes (short TLA+ strings), so that prefix  *)
(* tests, trimming, splitting and joining are computed, not assumed.  An  *)
(* argv is a sequence of such strings.                                     *)
(***************************************************************************)
EXTENDS Integers, Sequences, FiniteSets, TLC

VARIABLES
    config,     \* ProviderConfig: KubeAuth captured by helmCmdFunc, CacheDir, HelmMajor
    fs,         \* paths that exist under the cache directory
    d,          \* schema.ResourceData inputs of the release (d.Get)
    id,         \* d.Id()
    st,         \* computed state fields written by d.Set
    op,         \* handler being executed
    pc,         \* position inside the handler
    helmCmd,    \* Args of the install/upgrade *exec.Cmd under construction
    vfPaths,    \* vfPaths of the values-file loop
    attempt,    \* attempt counter of the running retry loop
    getErr,     \* getErr of the running retry loop
    calls,      \* external effects of the current handler call, in order
    logs,       \* lines sent to a log sink by the current handler call
    diags,      \* diagnostics returned by the last finished handler call
    nOps,       \* handler calls started so far
    tokIn,      \* exec-credential stdout handed to parseKubeExecToken
    tokOut,     \* what parseKubeExecToken returned for tokIn
    jsonIn,     \* decoded values handed to jsonMapToStringMap
    jsonOut,    \* the map jsonMapToStringMap returned for jsonIn
    cache,      \* what create/update calls have written below the cache directory
    helmArgs,   \* args handed to helmCmdFunc
    inflight,   \* the create/update calls running side by side, by goroutine
    repos       \* what exists below <cache>/repos, shared by the running calls

vars ==
    <<config, fs, d, id, st, op, pc, helmCmd, vfPaths, attempt, getErr,
      calls, logs, diags, nOps, tokIn, tokOut, jsonIn, jsonOut, cache, helmArgs,
      inflight, repos>>

(***************************************************************************)
(* Bounds                                                                  *)
(***************************************************************************)
MaxRetriesBound ==
    1

MaxOps ==
    2

(***************************************************************************)
(* Strings                                                                 *)
(***************************************************************************)
S(x) ==
    <<x>>

EmptyStr ==
    <<>>

IsSpace(c) ==
    c \in {" ", "\n", "\t"}

HasPrefix(s, p) ==
    /\ Len(s) >= Len(p)
    /\ SubSeq(s, 1, Len(p)) = p

RECURSIVE TrimLeft(_)
TrimLeft(s) ==
    IF s # <<>> /\ IsSpace(Head(s)) THEN TrimLeft(Tail(s)) ELSE s

RECURSIVE TrimRight(_)
TrimRight(s) ==
    IF s # <<>> /\ IsSpace(s[Len(s)])
    THEN TrimRight(SubSeq(s, 1, Len(s) - 1))
    ELSE s

TrimSpace(s) ==
    TrimRight(TrimLeft(s))

RECURSIVE Join(_, _)
Join(elems, sep) ==
    IF elems = <<>> THEN <<>>
    ELSE IF Len(elems) = 1 THEN elems[1]
    ELSE elems[1] \o sep \o Join(Tail(elems), sep)

Contains(s, sub) ==
    \E i \in 1..(Len(s) - Len(sub) + 1) : SubSeq(s, i, i + Len(sub) - 1) = sub

RECURSIVE Flatten(_)
Flatten(parts) ==
    IF parts = <<>> THEN <<>> ELSE Head(parts) \o Flatten(Tail(parts))

(***************************************************************************)
(* JSON values as decoded by encoding/json into interface{}                *)
(***************************************************************************)
JStr(s) ==
    [t |-> "str", s |-> s, o |-> <<>>, a |-> <<>>]

\* A number or boolean, with its JSON literal.
JNum(text) ==
    [t |-> "num", s |-> text, o |-> <<>>, a |-> <<>>]

JObj(o) ==
    [t |-> "obj", s |-> <<>>, o |-> o, a |-> <<>>]

JArr(a) ==
    [t |-> "arr", s |-> <<>>, o |-> <<>>, a |-> a]

JInvalid ==
    [t |-> "invalid", s |-> <<>>, o |-> <<>>, a |-> <<>>]

(***************************************************************************)
(* Exec-credential token extraction                                        *)
(***************************************************************************)
ToLower(c) ==
    CASE c = "Token" -> "token"
      [] c = "Status" -> "status"
      [] c = "Access" -> "access"
      [] c = "Id" -> "id"
      [] OTHER -> c

RECURSIVE normalizeTokenKey(_)
normalizeTokenKey(key) ==
    IF key = <<>> THEN <<>>
    ELSE IF Head(key) \in {"_", "-"} THEN normalizeTokenKey(Tail(key))
    ELSE <<ToLower(Head(key))>> \o normalizeTokenKey(Tail(key))

isTokenKey(key) ==
    normalizeTokenKey(key) \in {<<"token">>, <<"access", "token">>, <<"id", "token">>}

preferredPaths ==
    << <<S("status"), S("token")>>,
       <<S("status"), <<"access", "Token">>>>,
       <<S("status"), <<"access", "_", "token">>>>,
       <<S("status"), <<"id", "Token">>>>,
       <<S("status"), <<"id", "_", "token">>>>,
       <<S("token")>>,
       << <<"access", "Token">> >>,
       << <<"access", "_", "token">> >>,
       << <<"id", "Token">> >>,
       << <<"id", "_", "token">> >> >>

\* The values a lookup may return: the map is ranged over in an unspecified
\* order and the first key with the same normal form wins.  {} = not found.
getByNormalizedKey(raw, lookup) ==
    {raw[k] : k \in {k2 \in DOMAIN raw : normalizeTokenKey(k2) = normalizeTokenKey(lookup)}}

\* The set of strings getStringByPath may return (EmptyStr = "").
RECURSIVE getStringByPath(_, _)
getStringByPath(current, path) ==
    IF path = <<>>
    THEN IF current.t = "str" THEN {TrimSpace(current.s)} ELSE {EmptyStr}
    ELSE IF current.t # "obj" THEN {EmptyStr}
    ELSE LET nexts == getByNormalizedKey(current.o, Head(path))
         IN  IF nexts = {} THEN {EmptyStr}
             ELSE UNION {getStringByPath(n, Tail(path)) : n \in nexts}

\* First non-empty result of trying outcome sets in sequence: a non-empty
\* outcome of position i is returned when every earlier position could yield
\* "", and "" is returned when every position could.
RECURSIVE FirstNonEmpty(_)
FirstNonEmpty(outs) ==
    IF outs = <<>> THEN {EmptyStr}
    ELSE (Head(outs) \ {EmptyStr})
         \cup (IF EmptyStr \in Head(outs) THEN FirstNonEmpty(Tail(outs)) ELSE {})

\* First non-empty result of ranging over bodies in an unspecified order.
AnyOrderNonEmpty(outs) ==
    (UNION outs \ {EmptyStr})
    \cup (IF \A o \in outs : EmptyStr \in o THEN {EmptyStr} ELSE {})

\* The set of tokens extractTokenFromJSONValue may return (EmptyStr = "").
RECURSIVE extractTokenFromJSONValue(_)
extractTokenFromJSONValue(value) ==
    CASE value.t = "arr" ->
           FirstNonEmpty([i \in 1..Len(value.a) |-> extractTokenFromJSONValue(value.a[i])])
      [] value.t = "obj" ->
           LET byPath == FirstNonEmpty([i \in 1..Len(preferredPaths) |->
                                          getStringByPath(value, preferredPaths[i])])
               body(k) ==
                   LET nested == value.o[k]
                   IN  IF isTokenKey(k) /\ nested.t = "str" /\ TrimSpace(nested.s) # EmptyStr
                       THEN {TrimSpace(nested.s)}
                       ELSE extractTokenFromJSONValue(nested)
               scan == AnyOrderNonEmpty({body(k) : k \in DOMAIN value.o})
           IN  (byPath \ {EmptyStr})
               \cup (IF EmptyStr \in byPath THEN scan ELSE {})
      [] OTHER -> {EmptyStr}

(***************************************************************************)
(* Results of functions that return (value, error): err = EmptyStr is nil  *)
(***************************************************************************)
TokOk(tok) ==
    [token |-> tok, err |-> EmptyStr]

TokErr(msg) ==
    [token |-> EmptyStr, err |-> msg]

\* Stdout of an exec-credential run: its text and what json.Unmarshal makes
\* of that text (JInvalid when it does not parse).
Stdout(text, parsed) ==
    [text |-> text, parsed |-> parsed]

\* The first byte test without the string-literal case.
looksLikeJSONObjectOrArray(output) ==
    IF output = EmptyStr THEN FALSE
    ELSE output[1] \in {"{", "["}

looksLikeJSON(output) ==
    IF output = EmptyStr THEN FALSE
    ELSE output[1] \in {"{", "[", "\""}

MissingTokenField ==
    <<"kube_exec output JSON ", "missing token field">>

\* The set of results parseKubeExecToken may return for a trimmed output.
parseKubeExecToken(output) ==
    IF output.text = EmptyStr
    THEN {TokErr(S("kube_exec command returned empty output"))}
    ELSE IF ~looksLikeJSON(output.text) THEN {TokOk(output.text)}
    ELSE IF output.parsed.t = "invalid"
    THEN {TokErr(<<"kube_exec output is ", "not valid JSON", ": ", "unmarshal error">>)}
    ELSE IF output.parsed.t = "str"
    THEN IF TrimSpace(output.parsed.s) = EmptyStr
         THEN {TokErr(MissingTokenField)}
         ELSE {TokOk(TrimSpace(output.parsed.s))}
    ELSE {IF token = EmptyStr
          THEN TokErr(MissingTokenField)
          ELSE TokOk(token) : token \in extractTokenFromJSONValue(output.parsed)}

(***************************************************************************)
(* Outcomes of external processes                                          *)
(***************************************************************************)
\* How a run of the exec-credential command ended.
ExecRun(kind, out, stderr) ==
    [kind |-> kind, out |-> out, stderr |-> stderr]

NoStdout ==
    Stdout(EmptyStr, JInvalid)

ExitError ==
    S("exit status 1")

\* One external effect: what was run or done, its arguments, whether it
\* succeeded, the error it returned and the standard output captured.
Effect(kind, argv, err, out) ==
    [kind |-> kind, argv |-> argv, ok |-> err = EmptyStr, err |-> err, out |-> out,
     stderr |-> EmptyStr]

\* A run of a Helm command: its exit status and the two output streams.
HelmRun(argv, ok, stdout, stderr) ==
    [Effect("helm", argv, IF ok THEN EmptyStr ELSE ExitError, stdout)
        EXCEPT !.stderr = stderr]

Call(kind, argv, ok) ==
    Effect(kind, argv, IF ok THEN EmptyStr ELSE ExitError, EmptyStr)

\* A getter.Client.Get with the error it returned.
GetCall(argv, res) ==
    Effect("get", argv, res, EmptyStr)

\* KubeExec.token: result and the external effects of the call.
KubeExecToken(kubeExec, run) ==
    IF ~kubeExec.present THEN {[res |-> TokOk(EmptyStr), calls |-> <<>>]}
    ELSE IF kubeExec.Command = EmptyStr
    THEN {[res |-> TokErr(S("kube_exec command is required")), calls |-> <<>>]}
    ELSE LET ran(r) == [res |-> r,
                        calls |-> <<Effect("exec", <<kubeExec.Command>>, r.err,
                                           run.out.text)>>]
         IN  CASE run.kind = "timeout" ->
                    {ran(TokErr(S("kube_exec command timed out after ")
                                \o S("N") \o S(" seconds")))}
               [] run.kind = "fail" ->
                    {ran(TokErr(S("failed to run kube_exec command: ")
                                \o ExitError \o S(" (stderr: ")
                                \o TrimSpace(run.stderr) \o S(")")))}
               [] OTHER ->
                    {ran(r) : r \in parseKubeExecToken(
                                      Stdout(TrimSpace(run.out.text), run.out.parsed))}

\* kube_exec consulted before the static token.
resolveKubeTokenExecFirst(auth, run) ==
    IF auth.KubeExec.present THEN KubeExecToken(auth.KubeExec, run)
    ELSE {[res |-> TokOk(auth.KubeToken), calls |-> <<>>]}

resolveKubeToken(auth, run) ==
    IF auth.KubeToken # EmptyStr
    THEN {[res |-> TokOk(auth.KubeToken), calls |-> <<>>]}
    ELSE IF ~auth.KubeExec.present
    THEN {[res |-> TokOk(EmptyStr), calls |-> <<>>]}
    ELSE KubeExecToken(auth.KubeExec, run)

\* Every subcommand taken to need the token.
helmCommandAlwaysNeedsToken(args) ==
    TRUE

helmCommandNeedsKubeToken(args) ==
    IF Len(args) = 0 THEN FALSE
    ELSE IF args[1] = S("dependency") THEN FALSE
    ELSE TRUE

RECURSIVE redactFrom(_, _)
redactFrom(args, i) ==
    IF i > Len(args) THEN args
    ELSE IF HasPrefix(args[i], S("--kube-token="))
    THEN redactFrom([args EXCEPT ![i] = <<"--kube-token=", "REDACTED">>], i + 1)
    ELSE IF args[i] = S("--kube-token") /\ i + 1 <= Len(args)
    THEN redactFrom([args EXCEPT ![i + 1] = S("REDACTED")], i + 2)
    ELSE redactFrom(args, i + 1)

redactHelmArgs(args) ==
    Join(redactFrom(args, 1), S(" "))

OptFlag(flag, value) ==
    IF value # EmptyStr THEN <<S(flag), value>> ELSE <<>>

\* --kubeconfig appended before the token is resolved.
helmCmdFuncKubeconfigFirst(auth, args, run) ==
    LET base == <<S("helm")>> \o args
                \o OptFlag("--kube-apiserver", auth.KubeAPIServer)
                \o OptFlag("--kube-as-user", auth.KubeAsUser)
                \o OptFlag("--kube-as-group", auth.KubeAsGroup)
                \o OptFlag("--kube-ca-file", auth.KubeCAFile)
                \o OptFlag("--kube-context", auth.KubeContext)
                \o (IF auth.KubeInsecureSkipTLSVerify
                    THEN <<S("--kube-insecure-skip-tls-verify")>> ELSE <<>>)
                \o OptFlag("--kube-tls-server-name", auth.KubeTLSServerName)
                \o OptFlag("--kubeconfig", auth.Kubeconfig)
        built(a, cs) == [cmd |-> a, err |-> EmptyStr, calls |-> cs,
                         logs |-> <<S("Helm Command:") \o redactHelmArgs(a)>>]
    IN  IF helmCommandNeedsKubeToken(args)
        THEN {IF r.res.err # EmptyStr
              THEN [cmd |-> <<>>, err |-> r.res.err, calls |-> r.calls, logs |-> <<>>]
              ELSE built(base \o OptFlag("--kube-token", r.res.token), r.calls)
              : r \in resolveKubeToken(auth, run)}
        ELSE {built(base, <<>>)}

\* helmCmdFunc: the set of (command, error) results with the external
\* effects and the debug log line of the call.  cmd = <<>> stands for nil.
helmCmdFunc(auth, args, run) ==
    LET base == <<S("helm")>> \o args
                \o OptFlag("--kube-apiserver", auth.KubeAPIServer)
                \o OptFlag("--kube-as-user", auth.KubeAsUser)
                \o OptFlag("--kube-as-group", auth.KubeAsGroup)
                \o OptFlag("--kube-ca-file", auth.KubeCAFile)
                \o OptFlag("--kube-context", auth.KubeContext)
                \o (IF auth.KubeInsecureSkipTLSVerify
                    THEN <<S("--kube-insecure-skip-tls-verify")>> ELSE <<>>)
                \o OptFlag("--kube-tls-server-name", auth.KubeTLSServerName)
        kc == OptFlag("--kubeconfig", auth.Kubeconfig)
        built(a, cs) == [cmd |-> a, err |-> EmptyStr, calls |-> cs,
                         logs |-> <<S("Helm Command:") \o redactHelmArgs(a)>>]
    IN  IF helmCommandNeedsKubeToken(args)
        THEN {IF r.res.err # EmptyStr
              THEN [cmd |-> <<>>, err |-> r.res.err, calls |-> r.calls, logs |-> <<>>]
              ELSE built(base \o OptFlag("--kube-token", r.res.token) \o kc, r.calls)
              : r \in resolveKubeToken(auth, run)}
        ELSE {built(base \o kc, <<>>)}

(***************************************************************************)
(* Paths and hashes                                                        *)
(***************************************************************************)
\* strings.Split(s, sep) for a one-lexeme separator.
RECURSIVE SplitAcc(_, _, _)
SplitAcc(s, sep, cur) ==
    IF s = <<>> THEN <<cur>>
    ELSE IF Head(s) = sep THEN <<cur>> \o SplitAcc(Tail(s), sep, <<>>)
    ELSE SplitAcc(Tail(s), sep, Append(cur, Head(s)))

Split(s, sep) ==
    SplitAcc(s, sep, <<>>)

\* Lexical processing of path elements by filepath.Clean: empty and "."
\* elements are dropped, ".." removes the element before it.
RECURSIVE CleanSegs(_, _)
CleanSegs(segs, acc) ==
    IF segs = <<>> THEN acc
    ELSE IF Head(segs) = <<>> \/ Head(segs) = S(".") THEN CleanSegs(Tail(segs), acc)
    ELSE IF Head(segs) = S("..") /\ acc # <<>> /\ acc[Len(acc)] # S("..")
    THEN CleanSegs(Tail(segs), SubSeq(acc, 1, Len(acc) - 1))
    ELSE CleanSegs(Tail(segs), Append(acc, Head(segs)))

Clean(p) ==
    IF p = <<>> THEN S(".")
    ELSE LET rooted == Head(p) = "/"
             body == Join(CleanSegs(Split(p, "/"), <<>>), S("/"))
         IN  IF rooted THEN S("/") \o body
             ELSE IF body = <<>> THEN S(".") ELSE body

\* filepath.Join / path.Join: empty elements are ignored, the rest joined
\* with the separator and cleaned; all elements empty gives "".
PathJoin(elems) ==
    LET nonEmpty == SelectSeq(elems, LAMBDA e : e # <<>>)
    IN  IF nonEmpty = <<>> THEN <<>> ELSE Clean(Join(nonEmpty, S("/")))

\* Two repository URLs and the first 8 hex digits of their MD5 sums
\* (f59ab0cda6005b5f8106d5eb4dfcbeff and f59ab0cdbd71f7c4f2d1ce6c4429cfd9).
GitRepo75030 ==
    <<"https:", "/", "/", "git.example.com", "/", "team", "/", "charts-75030.git">>

GitRepo128089 ==
    <<"https:", "/", "/", "git.example.com", "/", "team", "/", "charts-128089.git">>

Md5Prefixes ==
    {<<GitRepo75030, "f59ab0cd">>, <<GitRepo128089, "f59ab0cd">>}

\* The first 8 hex digits of the MD5 of the input: the digits themselves
\* for the tabulated inputs, and for any other input one lexeme naming it.
generateHash(input) ==
    IF \E e \in Md5Prefixes : e[1] = input
    THEN S((CHOOSE e \in Md5Prefixes : e[1] = input)[2])
    ELSE S(ToString(input))

isRemoteChartRepoURL(chartRepository) ==
    \/ HasPrefix(chartRepository, <<"http:", "/", "/">>)
    \/ HasPrefix(chartRepository, <<"https:", "/", "/">>)

isLocalChartRepoPath(chartRepository) ==
    \/ HasPrefix(chartRepository, S("/"))
    \/ HasPrefix(chartRepository, S("."))

(***************************************************************************)
(* Provider configurations and release specifications explored             *)
(***************************************************************************)
NoKubeExec ==
    [present |-> FALSE, Command |-> EmptyStr]

KubeExecs ==
    {NoKubeExec,
     [present |-> TRUE, Command |-> S("aws-token")],
     [present |-> TRUE, Command |-> EmptyStr]}

StaticToken ==
    S("static-secret")

BaseAuth ==
    [KubeAPIServer |-> EmptyStr, KubeAsGroup |-> EmptyStr, KubeAsUser |-> EmptyStr,
     KubeCAFile |-> EmptyStr, KubeContext |-> EmptyStr,
     KubeInsecureSkipTLSVerify |-> FALSE, KubeTLSServerName |-> EmptyStr,
     KubeToken |-> EmptyStr, Kubeconfig |-> EmptyStr, KubeExec |-> NoKubeExec]

FullAuth ==
    [KubeAPIServer |-> <<"https:", "/", "/", "api">>, KubeAsGroup |-> S("ops"),
     KubeAsUser |-> S("admin"), KubeCAFile |-> <<"/", "ca.pem">>,
     KubeContext |-> S("ctx"), KubeInsecureSkipTLSVerify |-> TRUE,
     KubeTLSServerName |-> S("api.local"), KubeToken |-> EmptyStr,
     Kubeconfig |-> <<"/", "kubeconfig">>, KubeExec |-> NoKubeExec]

\* The provider configurations explored: no token; a static token; a static
\* token together with kube_exec; kube_exec alone; kube_exec without command.
ConfigPlain ==
    [KubeAuth |-> BaseAuth, CacheDir |-> S("cache"), HelmMajor |-> 3]

TokenConfigs ==
    {[KubeAuth |-> [FullAuth EXCEPT !.KubeToken = StaticToken],
      CacheDir |-> S("cache"), HelmMajor |-> 3],
     [KubeAuth |-> [BaseAuth EXCEPT !.KubeToken = StaticToken,
                                    !.KubeExec = [present |-> TRUE,
                                                  Command |-> S("aws-token")]],
      CacheDir |-> S("cache"), HelmMajor |-> 4],
     [KubeAuth |-> [FullAuth EXCEPT !.KubeExec = [present |-> TRUE,
                                                  Command |-> S("aws-token")]],
      CacheDir |-> S("cache"), HelmMajor |-> 4],
     [KubeAuth |-> [BaseAuth EXCEPT !.KubeExec = [present |-> TRUE,
                                                  Command |-> EmptyStr]],
      CacheDir |-> S("cache"), HelmMajor |-> 3]}

Configs ==
    {ConfigPlain} \cup TokenConfigs

RemoteRepo ==
    <<"https:", "/", "/", "charts.example.com">>

LocalRepo ==
    <<".", "/", "charts">>

GitRepo ==
    <<"https:", "/", "/", "example.com", "/", "charts.git">>

ChartURL ==
    <<"https:", "/", "/", "example.com", "/", "chart.tgz">>

LocalValues ==
    <<".", "/", "values", "/", "prod.yaml">>

RemoteValuesA ==
    <<"https:", "/", "/", "example.com", "/", "a.yaml">>

RemoteValuesB ==
    <<"s3::", "bucket", "/", "b.yaml">>

BaseSpec ==
    [isData |-> FALSE,
     name |-> S("nginx"), namespace |-> S("web"),
     chart_repository |-> EmptyStr, git_repository |-> EmptyStr,
     git_reference |-> EmptyStr, chart_path |-> <<"bitnami", "/", "nginx">>,
     chart_url |-> EmptyStr, insecure |-> FALSE, create_namespace |-> FALSE,
     chart_version |-> EmptyStr, values |-> EmptyStr, values_files |-> <<>>,
     wait |-> FALSE, atomic |-> FALSE, timeout |-> EmptyStr, debug |-> FALSE,
     custom_args |-> <<>>, post_renderer |-> EmptyStr,
     post_renderer_url |-> EmptyStr, max_retries |-> 0,
     retry_delay |-> <<"2", "s">>]

\* The chart sources a release can name.
WithSource(r, src) ==
    CASE src = "remote" -> [r EXCEPT !.chart_repository = RemoteRepo]
      [] src = "alias" -> [r EXCEPT !.chart_repository = S("bitnami")]
      [] src = "git" -> [r EXCEPT !.git_repository = GitRepo, !.git_reference = S("main")]
      [] OTHER -> [r EXCEPT !.chart_url = ChartURL]

PostRendererURL ==
    <<"https:", "/", "/", "example.com", "/", "render.sh">>

\* The optional flags of a release: none, all of them with a post-renderer
\* command, or a post-renderer that is downloaded.
WithFlags(r, profile) ==
    IF profile = "none" THEN r
    ELSE IF profile = "prurl" THEN [r EXCEPT !.post_renderer_url = PostRendererURL]
    ELSE [r EXCEPT !.create_namespace = TRUE, !.chart_version = S("1.2.3"),
                   !.wait = TRUE, !.atomic = TRUE, !.debug = TRUE,
                   !.timeout = S("60"),
                   !.custom_args = <<S("--dry-run"), <<"--kube-token=", "cli-secret">>>>,
                   !.post_renderer = <<"kustomize", " ", "build">>]

InlineValues ==
    <<"replicaCount:", " ", "1">>

\* Values of a release: none; a repository-relative file, a remote file and
\* inline values; two remote files; two remote files and inline values.
WithValues(r, variant) ==
    CASE variant = 1 -> r
      [] variant = 2 -> [r EXCEPT !.values_files = <<LocalValues, RemoteValuesA>>,
                                  !.values = InlineValues]
      [] variant = 3 -> [r EXCEPT !.values_files = <<RemoteValuesB, RemoteValuesA>>]
      [] OTHER -> [r EXCEPT !.values_files = <<RemoteValuesB, RemoteValuesA>>,
                            !.values = InlineValues]

ReleaseSpec(src, profile, variant, n) ==
    [WithValues(WithFlags(WithSource(BaseSpec, src), profile), variant)
        EXCEPT !.max_retries = n]

Sources ==
    {"remote", "alias", "git", "url"}

\* Releases explored under the configuration without a token.
ReleaseSpecs ==
    {ReleaseSpec(src, "none", variant, 0) : src \in Sources, variant \in {1, 4}}
    \cup {ReleaseSpec(src, "full", 2, 0) : src \in Sources}
    \cup {ReleaseSpec(src, "prurl", 3, 0) : src \in {"git", "alias"}}
    \cup {ReleaseSpec(src, "none", 3, n) : src \in {"url", "alias"},
                                           n \in (-1)..MaxRetriesBound}
    \cup {[ReleaseSpec("git", "none", 1, 0) EXCEPT !.retry_delay = S("soon")]}
    \cup {[ReleaseSpec("alias", "none", 1, 0) EXCEPT !.timeout = <<"5", "m">>]}
    \cup {ReleaseSpec("git", "none", 1, MaxRetriesBound)}
    \cup {[ReleaseSpec("alias", "none", 1, 0) EXCEPT !.post_renderer = <<" ", "kustomize">>]}
    \cup {[ReleaseSpec("alias", "none", 1, 0) EXCEPT !.chart_repository = LocalRepo]}

\* Releases explored under the configurations with a token or kube_exec.
TokenSpecs ==
    {ReleaseSpec("git", "full", 2, 0),
     ReleaseSpec("url", "prurl", 1, 1),
     ReleaseSpec("remote", "none", 1, 0)}

DataSpecs ==
    {[BaseSpec EXCEPT !.isData = TRUE]}

Scenarios ==
    ({ConfigPlain} \X ReleaseSpecs)
    \cup (TokenConfigs \X TokenSpecs)
    \cup (Configs \X DataSpecs)

(***************************************************************************)
(* Locals of resourceHelmReleaseCreateOrUpdate that depend on inputs only  *)
(***************************************************************************)
Digits ==
    {"0", "1", "2", "5", "60"}

\* time.ParseDuration accepts a number followed by a unit.
ParseDurationOk(str) ==
    /\ Len(str) = 2
    /\ str[1] \in Digits
    /\ str[2] \in {"ns", "us", "ms", "s", "m", "h"}

\* getter.SourceDirSubdir: a "//" after the scheme separates a sub-directory.
chartURLHasSubdir(chartURL) ==
    \E i \in 2..(Len(chartURL) - 1) :
        /\ chartURL[i] = "/"
        /\ chartURL[i + 1] = "/"
        /\ chartURL[i - 1] \notin {"http:", "https:", "/"}

chartRepoURL(r) ==
    IF r.chart_repository # EmptyStr /\ isRemoteChartRepoURL(r.chart_repository)
    THEN r.chart_repository
    ELSE EmptyStr

repoPath(r, cfg) ==
    IF r.chart_repository = EmptyStr
    THEN PathJoin(<<cfg.CacheDir, S("repos"),
                    r.name \o S("-") \o generateHash(r.git_repository \o r.chart_url)>>)
    ELSE EmptyStr

\* The chart path joined with the repository whatever the repository is.
fullChartPathJoined(r, cfg) ==
    IF r.chart_repository # EmptyStr
    THEN PathJoin(<<r.chart_repository, r.chart_path>>)
    ELSE PathJoin(<<repoPath(r, cfg), r.chart_path>>)

fullChartPath(r, cfg) ==
    IF r.chart_repository # EmptyStr
    THEN IF isRemoteChartRepoURL(r.chart_repository)
         THEN IF r.chart_path # EmptyStr THEN r.chart_path ELSE r.chart_repository
         ELSE PathJoin(<<r.chart_repository, r.chart_path>>)
    ELSE PathJoin(<<repoPath(r, cfg), r.chart_path>>)

\* Directory of the downloaded values files.
valuesPath(r, cfg) ==
    LET base == PathJoin(<<cfg.CacheDir, S("values"), r.name>>)
    IN  IF r.values # EmptyStr \/ Len(r.values_files) > 0
        THEN IF r.git_reference # EmptyStr THEN PathJoin(<<base, r.git_reference>>)
             ELSE IF r.chart_repository # EmptyStr
             THEN PathJoin(<<base, r.chart_repository>>)
             ELSE base
        ELSE base

valuesFileName(r, content) ==
    r.name \o S("-") \o generateHash(content) \o S("-values.yaml")

\* Destination of a downloaded values file.
vDst(r, cfg, vf) ==
    PathJoin(<<valuesPath(r, cfg), valuesFileName(r, vf)>>)

\* Directory and path of the inline values file.
inlineValuesPath(r, cfg) ==
    LET base == PathJoin(<<cfg.CacheDir, S("values"), r.chart_repository>>)
    IN  IF r.git_reference # EmptyStr THEN PathJoin(<<base, r.git_reference>>)
        ELSE IF r.chart_repository # EmptyStr
        THEN PathJoin(<<base, r.chart_repository>>)
        ELSE base

valuesFilePath(r, cfg) ==
    PathJoin(<<inlineValuesPath(r, cfg), valuesFileName(r, r.values)>>)

\* The loop condition with < for <=: one attempt fewer.
RetryLoopStrict(att, maxRetries) ==
    att < maxRetries

\* The condition of both download loops: attempt <= maxRetries.
RetryLoopContinues(att, maxRetries) ==
    att <= maxRetries

isLocalValuesFile(r, cfg, vf) ==
    HasPrefix(vf, S(".")) /\ repoPath(r, cfg) # EmptyStr

\* The values-file loop up to the next entry that is downloaded: entries
\* resolved inside the repository are appended, and so are entries whose
\* retry loop makes no attempt.
RECURSIVE AdvanceValuesFiles(_, _, _)
AdvanceValuesFiles(r, cfg, paths) ==
    LET i == Len(paths) + 1
    IN  IF i > Len(r.values_files) THEN paths
        ELSE IF isLocalValuesFile(r, cfg, r.values_files[i])
        THEN AdvanceValuesFiles(r, cfg,
                 Append(paths, PathJoin(<<repoPath(r, cfg), r.values_files[i]>>)))
        ELSE IF ~RetryLoopContinues(0, r.max_retries)
        THEN AdvanceValuesFiles(r, cfg, Append(paths, vDst(r, cfg, r.values_files[i])))
        ELSE paths

RECURSIVE ValuesFileFlags(_)
ValuesFileFlags(paths) ==
    IF paths = <<>> THEN <<>>
    ELSE <<S("-f"), Head(paths)>> \o ValuesFileFlags(Tail(paths))

\* strconv.Atoi succeeds on a string of digits.
AtoiOk(str) ==
    /\ str # <<>>
    /\ \A i \in 1..Len(str) : str[i] \in Digits

\* The unit appended whatever the form of the timeout.
normalizeTimeoutAlways(timeout) ==
    timeout \o S("s")

normalizeTimeout(timeout) ==
    IF AtoiOk(timeout) THEN timeout \o S("s") ELSE timeout

\* The flags with the inline values file placed before the values files.
ArgsInlineFirst(r, cfg, args, paths) ==
    args
    \o (IF r.values # EmptyStr THEN <<S("-f"), valuesFilePath(r, cfg)>> ELSE <<>>)
    \o ValuesFileFlags(paths)
    \o OptFlag("--namespace", r.namespace)
    \o (IF r.create_namespace THEN <<S("--create-namespace")>> ELSE <<>>)
    \o OptFlag("--version", r.chart_version)
    \o (IF r.wait THEN <<S("--wait")>> ELSE <<>>)
    \o (IF r.atomic THEN <<S("--atomic")>> ELSE <<>>)
    \o (IF r.debug THEN <<S("--debug")>> ELSE <<>>)
    \o (IF r.timeout # EmptyStr
        THEN <<S("--timeout"), normalizeTimeout(r.timeout)>> ELSE <<>>)

\* helmCmd.Args from the values-file flags to the timeout flag.
ArgsThroughTimeout(r, cfg, args, paths) ==
    args
    \o ValuesFileFlags(paths)
    \o (IF r.values # EmptyStr THEN <<S("-f"), valuesFilePath(r, cfg)>> ELSE <<>>)
    \o OptFlag("--namespace", r.namespace)
    \o (IF r.create_namespace THEN <<S("--create-namespace")>> ELSE <<>>)
    \o OptFlag("--version", r.chart_version)
    \o (IF r.wait THEN <<S("--wait")>> ELSE <<>>)
    \o (IF r.atomic THEN <<S("--atomic")>> ELSE <<>>)
    \o (IF r.debug THEN <<S("--debug")>> ELSE <<>>)
    \o (IF r.timeout # EmptyStr
        THEN <<S("--timeout"), normalizeTimeout(r.timeout)>> ELSE <<>>)

renderPath(cfg, url) ==
    PathJoin(<<cfg.CacheDir, S("postrender"), generateHash(url), S("postrender")>>)

\* Where the post-renderer download is written.
postRendererDst(r, cfg) ==
    IF r.post_renderer = EmptyStr
    THEN PathJoin(<<renderPath(cfg, r.post_renderer_url), S("renderer")>>)
    ELSE renderPath(cfg, r.post_renderer_url)

\* postRenderer after the download step.
resolvedPostRenderer(r, cfg) ==
    IF r.post_renderer_url # EmptyStr /\ r.post_renderer = EmptyStr
    THEN postRendererDst(r, cfg)
    ELSE r.post_renderer

pluginName(command, args, url) ==
    S("terrahelm-postrender-")
    \o generateHash(command \o S("\\x00") \o Join(args, S("\\x00")) \o S("\\x00") \o url)

pluginPath(cfg, name) ==
    PathJoin(<<cfg.CacheDir, S("helm"), S("plugins"), name, S("plugin.yaml")>>)

\* The post-renderer flags and the custom arguments.
PostRendererFlags(r, cfg) ==
    LET pr == resolvedPostRenderer(r, cfg)
        parts == Split(pr, " ")
        cmd == parts[1]
        cmdArgs == Tail(parts)
    IN  IF pr = EmptyStr \/ cmd = EmptyStr THEN <<>>
        ELSE IF cfg.HelmMajor >= 4
        THEN <<S("--post-renderer"), pluginName(cmd, cmdArgs, r.post_renderer_url)>>
        ELSE <<S("--post-renderer"), cmd>>
             \o (IF Len(cmdArgs) > 0 THEN <<S("--post-renderer-args")>> \o cmdArgs
                 ELSE <<>>)

pluginDir(cfg, name) ==
    PathJoin(<<cfg.CacheDir, S("helm"), S("plugins"), name>>)

\* File system effects of ensurePostRendererPlugin, when it is called.
PostRendererWrites(r, cfg) ==
    LET pr == resolvedPostRenderer(r, cfg)
        parts == Split(pr, " ")
        name == pluginName(parts[1], Tail(parts), r.post_renderer_url)
    IN  IF pr # EmptyStr /\ parts[1] # EmptyStr /\ cfg.HelmMajor >= 4
        THEN <<Call("mkdir", <<pluginDir(cfg, name)>>, TRUE),
               Call("write", <<pluginPath(cfg, name), S("plugin.yaml:") \o name
                                \o S(" command:") \o parts[1]
                                \o S(" args:") \o Join(Tail(parts), S(","))>>, TRUE)>>
        ELSE <<>>

\* The paths a sequence of file system effects creates.
Created(effects) ==
    {effects[i].argv[1] : i \in {j \in 1..Len(effects) : effects[j].kind \in {"mkdir", "write"}}}

\* The custom arguments placed before the post-renderer flags.
FinalArgsCustomFirst(r, cfg, args) ==
    args \o r.custom_args \o PostRendererFlags(r, cfg)

FinalArgs(r, cfg, args) ==
    args \o PostRendererFlags(r, cfg) \o r.custom_args

(***************************************************************************)
(* Outcomes the environment can produce                                    *)
(***************************************************************************)
ExecSecret ==
    S("exec-secret")

ExecRuns ==
    {ExecRun("ok", Stdout(ExecSecret \o S("\n"), JInvalid), EmptyStr),
     ExecRun("ok", Stdout(<<"{", "status-token", "}", "\n">>,
                          JObj(S("status") :> JObj(S("token") :> JStr(ExecSecret)))),
             EmptyStr),
     ExecRun("ok", Stdout(<<"{", "kind", "}">>, JObj(S("kind") :> JStr(S("ExecCredential")))),
             EmptyStr),
     ExecRun("fail", NoStdout, <<"access denied", "\n">>),
     ExecRun("timeout", NoStdout, EmptyStr)}

\* The plugin is not started.
NoExecRun ==
    ExecRun("none", NoStdout, EmptyStr)

\* The runs of the exec plugin a command can see: without kube_exec in the
\* provider configuration there is no plugin to start.
ExecRunsOf(auth) ==
    IF auth.KubeExec.present THEN ExecRuns ELSE {NoExecRun}

\* What a failing Helm command writes to its standard error.
HelmStderr ==
    S("Error: Kubernetes cluster unreachable")

\* How a process run ended: exit status, captured stdout and stderr.
ProcRuns ==
    {[ok |-> TRUE, stdout |-> S("done"), stderr |-> EmptyStr],
     [ok |-> FALSE, stdout |-> S("partial"), stderr |-> S("stderr: boom")]}

\* Errors a getter.Client.Get can return; EmptyStr is nil.
GetResults ==
    {EmptyStr, S("connection reset"), S("404 not found")}

Release(chart, revision, status) ==
    [chart |-> chart, revision |-> revision, status |-> status]

\* `helm list -o json`: exit status and the decoded array, or undecodable.
ListRuns ==
    {[ok |-> FALSE, text |-> EmptyStr, valid |-> FALSE, list |-> <<>>,
      stderr |-> HelmStderr],
     [ok |-> TRUE, text |-> S("Error: unreachable"), valid |-> FALSE, list |-> <<>>,
      stderr |-> EmptyStr],
     [ok |-> TRUE, text |-> <<"[", "]">>, valid |-> TRUE, list |-> <<>>,
      stderr |-> EmptyStr],
     [ok |-> TRUE, text |-> <<"[", "nginx-13.2.1", "]">>, valid |-> TRUE,
      stderr |-> EmptyStr,
      list |-> <<Release(<<"nginx", "-", "13.2.1">>, S("3"), S("deployed"))>>],
     [ok |-> TRUE, text |-> <<"[", "my-chart-1.0.0", "]">>, valid |-> TRUE,
      stderr |-> EmptyStr,
      list |-> <<Release(<<"my", "-", "chart", "-", "1.0.0">>, S("1"), S("failed"))>>]}

\* `helm get values -o yaml`: exit status, the text, whether yaml.Unmarshal
\* accepts it and its re-serialisation by yaml.Marshal.
UserValuesRuns ==
    {[ok |-> FALSE, text |-> EmptyStr, valid |-> FALSE, canon |-> EmptyStr,
      stderr |-> HelmStderr],
     [ok |-> TRUE, text |-> <<"replicaCount:", "  ", "1", "\n">>, valid |-> TRUE,
      canon |-> <<"replicaCount:", " ", "1", "\n">>, stderr |-> EmptyStr],
     [ok |-> TRUE, text |-> <<"a:", " ", "[">>, valid |-> FALSE, canon |-> EmptyStr,
      stderr |-> EmptyStr]}

\* `helm get values -a -o json`: exit status and the decoded object.
AllValuesRuns ==
    {[ok |-> FALSE, parsed |-> JInvalid, stderr |-> HelmStderr],
     [ok |-> TRUE, parsed |-> JInvalid, stderr |-> EmptyStr],
     [ok |-> TRUE, stderr |-> EmptyStr,
      parsed |-> JObj((S("image") :> JObj(S("tag") :> JStr(S("1.25"))))
                      @@ (S("replicaCount") :> JNum(S("2"))))]}

(***************************************************************************)
(* Release State Reader helpers                                            *)
(***************************************************************************)
sanitizeYAMLString(run) ==
    IF TrimSpace(run.text) = EmptyStr THEN [out |-> EmptyStr, err |-> EmptyStr]
    ELSE IF ~run.valid
    THEN [out |-> EmptyStr, err |-> S("failed to parse YAML: ") \o S("yaml error")]
    ELSE [out |-> run.canon, err |-> EmptyStr]

\* %v of the float64 a JSON number decodes to: the shortest digits, with an
\* exponent from 10^21 on and for a one-digit mantissa from 10^6 on.
FormatFloat(literal) ==
    CASE literal = S("1000000") -> S("1e+06")
      [] literal = S("42.0") -> S("42")
      [] OTHER -> literal

\* fmt.Sprintf("%v") of a decoded JSON leaf.
RECURSIVE Sprintv(_)
Sprintv(v) ==
    CASE v.t = "arr" ->
           S("[") \o Join([i \in 1..Len(v.a) |-> Sprintv(v.a[i])], S(" ")) \o S("]")
      [] v.t = "num" -> FormatFloat(v.s)
      [] OTHER -> v.s

\* The (key, text) pairs the traversal writes into the converted map.
RECURSIVE traverse(_, _)
traverse(parentKey, value) ==
    IF value.t = "obj"
    THEN UNION {traverse(parentKey \o S(".") \o key, value.o[key]) : key \in DOMAIN value.o}
    ELSE {<<parentKey, Sprintv(value)>>}

\* The maps jsonMapToStringMap may return: a key written more than once
\* keeps the value written last, and the maps are ranged over in an
\* unspecified order.
jsonMapToStringMap(rawValues) ==
    LET pairs == UNION {traverse(key, rawValues[key]) : key \in DOMAIN rawValues}
        keys == {p[1] : p \in pairs}
    IN  {f \in [keys -> {p[2] : p \in pairs}] : \A k \in keys : <<k, f[k]>> \in pairs}

chartVersionOf(chart) ==
    LET chartParts == Split(chart, "-")
    IN  chartParts[Len(chartParts)]

\* The name taken to end at the first hyphen.
chartNameToFirstHyphen(chart) ==
    Split(chart, "-")[1]

chartNameOf(chart) ==
    LET chartParts == Split(chart, "-")
    IN  Join(SubSeq(chartParts, 1, Len(chartParts) - 1), S("-"))

\* The two parts of the ID in the other order.
releaseIdSwapped(r) ==
    r.name \o S("/") \o r.namespace

releaseId(r) ==
    r.namespace \o S("/") \o r.name

NoState ==
    [release_chart_name |-> EmptyStr, release_chart_version |-> EmptyStr,
     release_revision |-> EmptyStr, release_status |-> EmptyStr,
     values |-> EmptyStr, release_values |-> <<>>]

\* Nothing below <cache>/repos.
NoRepos ==
    [dirs |-> {}, files |-> {}]

(***************************************************************************)
(* Initial state                                                           *)
(***************************************************************************)
Init ==
    /\ \E sc \in Scenarios : config = sc[1] /\ d = sc[2]
    /\ fs = {}
    /\ id = EmptyStr
    /\ st = NoState
    /\ op = "none"
    /\ pc = "idle"
    /\ helmCmd = <<>>
    /\ vfPaths = <<>>
    /\ attempt = 0
    /\ getErr = EmptyStr
    /\ calls = <<>>
    /\ logs = <<>>
    /\ diags = EmptyStr
    /\ nOps = 0
    /\ tokIn = NoStdout
    /\ tokOut = TokOk(EmptyStr)
    /\ jsonIn = JObj(<<>>)
    /\ jsonOut = <<>>
    /\ cache = {}
    /\ helmArgs = <<>>
    /\ inflight = <<>>
    /\ repos = NoRepos

\* A handler is entered: nothing of the previous call's effects remains.
Enter(handler) ==
    /\ pc = "idle"
    /\ nOps < MaxOps
    /\ nOps' = nOps + 1
    /\ op' = handler

\* The handler returns diagnostics msg (EmptyStr: none).
Return(msg) ==
    /\ pc' = "idle"
    /\ diags' = msg

tokVars ==
    <<tokIn, tokOut, jsonIn, jsonOut, cache, helmArgs,
      inflight, repos>>

loopVars ==
    <<vfPaths, attempt, getErr>>

(***************************************************************************)
(* resourceHelmReleaseDelete                                               *)
(***************************************************************************)
uninstallArgs(r) ==
    <<S("uninstall"), r.name, S("--namespace"), r.namespace>>

\* The ID cleared whatever the outcome of the command.
IdClearedAlways(cur, ok) ==
    EmptyStr

\* d.Id() after the uninstall command has run: d.SetId("") is reached only
\* when CombinedOutput returned no error.
IdAfterUninstall(cur, ok) ==
    IF ok THEN EmptyStr ELSE cur

Delete ==
    /\ ~d.isData
    /\ id # EmptyStr
    /\ Enter("delete")
    /\ \E run \in ExecRunsOf(config.KubeAuth), proc \in ProcRuns :
         \E c \in helmCmdFunc(config.KubeAuth, uninstallArgs(d), run) :
            IF c.err # EmptyStr
            THEN /\ calls' = c.calls
                 /\ logs' = c.logs
                 /\ id' = id
                 /\ Return(c.err)
            ELSE /\ calls' = c.calls \o <<HelmRun(c.cmd, proc.ok, proc.stdout, proc.stderr)>>
                 /\ logs' = c.logs
                 /\ id' = IdAfterUninstall(id, proc.ok)
                 /\ IF proc.ok
                    THEN Return(EmptyStr)
                    ELSE Return(S("failed to uninstall Helm release: ") \o ExitError
                                \o S(", Output: ") \o proc.stdout \o proc.stderr)
    /\ UNCHANGED <<config, fs, d, st, helmCmd, loopVars, tokVars>>

(***************************************************************************)
(* resourceHelmReleaseRead                                                 *)
(***************************************************************************)
\* A Helm command of the read: built by helmCmdFunc and run unless the
\* token could not be resolved.  ran is the run's record, <<>> if none.
ReadCmd(args, run, ok, text, stderr) ==
    {[err |-> c.err,
      calls |-> c.calls \o (IF c.err = EmptyStr
                            THEN <<HelmRun(c.cmd, ok, text, stderr)>>
                            ELSE <<>>),
      logs |-> c.logs] : c \in helmCmdFunc(config.KubeAuth, args, run)}

\* An empty listing reported with the message of a failed listing.
listErrorConfused(out, name) ==
    IF ~out.ok \/ (out.valid /\ Len(out.list) = 0)
    THEN S("failed to retrieve Helm chart information: ") \o ExitError
    ELSE IF ~out.valid
    THEN S("failed to unmarshal Helm chart information: ") \o S("unmarshal error")
    ELSE EmptyStr

\* The error resourceHelmReleaseRead returns for a listing, EmptyStr if none.
listError(out, name) ==
    IF ~out.ok THEN S("failed to retrieve Helm chart information: ") \o ExitError
    ELSE IF ~out.valid
    THEN S("failed to unmarshal Helm chart information: ") \o S("unmarshal error")
    ELSE IF Len(out.list) = 0 THEN S("failed to list Helm chart: ") \o name
    ELSE EmptyStr

ReadList ==
    /\ pc = "list"
    /\ \E run \in ExecRunsOf(config.KubeAuth), out \in ListRuns :
         \E c \in ReadCmd(<<S("list"), S("-n"), d.namespace, S("-f"), d.name,
                            S("-o"), S("json")>>, run, out.ok, out.text, out.stderr) :
            /\ calls' = calls \o c.calls
            /\ logs' = logs \o <<S("getting the Helm chart information")>> \o c.logs
            /\ IF c.err # EmptyStr THEN Return(c.err) /\ st' = st
               ELSE IF listError(out, d.name) # EmptyStr
               THEN /\ Return(listError(out, d.name))
                    /\ st' = st
               ELSE /\ st' = [st EXCEPT
                                !.release_chart_name = chartNameOf(out.list[1].chart),
                                !.release_chart_version = chartVersionOf(out.list[1].chart),
                                !.release_revision = out.list[1].revision,
                                !.release_status = out.list[1].status]
                    /\ pc' = "uservalues"
                    /\ diags' = diags
    /\ UNCHANGED <<config, fs, d, id, op, helmCmd, loopVars, nOps, tokVars>>

ReadUserValues ==
    /\ pc = "uservalues"
    /\ \E run \in ExecRunsOf(config.KubeAuth), out \in UserValuesRuns :
         \E c \in ReadCmd(<<S("get"), S("values"), S("-n"), d.namespace, d.name,
                            S("-o"), S("yaml")>>, run, out.ok, out.text, out.stderr) :
            /\ calls' = calls \o c.calls
            /\ logs' = logs \o <<S("getting user Helm values")>> \o c.logs
            /\ IF c.err # EmptyStr THEN Return(c.err) /\ st' = st
               ELSE IF ~out.ok
               THEN /\ Return(S("failed to retrieve Helm values: ") \o ExitError)
                    /\ st' = st
               ELSE IF sanitizeYAMLString(out).err # EmptyStr
               THEN /\ Return(S("failed to sanitize Helm release values: ")
                              \o sanitizeYAMLString(out).err)
                    /\ st' = st
               ELSE /\ st' = [st EXCEPT !.values = sanitizeYAMLString(out).out]
                    /\ pc' = "allvalues"
                    /\ diags' = diags
    /\ UNCHANGED <<config, fs, d, id, op, helmCmd, loopVars, nOps, tokVars>>

ReadAllValues ==
    /\ pc = "allvalues"
    /\ \E run \in ExecRunsOf(config.KubeAuth), out \in AllValuesRuns :
         \E c \in ReadCmd(<<S("get"), S("values"), S("-n"), d.namespace, d.name,
                            S("-a"), S("-o"), S("json")>>, run, out.ok, EmptyStr,
                            out.stderr) :
            /\ calls' = calls \o c.calls
            /\ logs' = logs \o <<S("getting release Helm values")>> \o c.logs
            /\ IF c.err # EmptyStr THEN Return(c.err) /\ st' = st
               ELSE IF ~out.ok
               THEN /\ Return(S("failed to retrieve Helm release values: ") \o ExitError)
                    /\ st' = st
               ELSE IF out.parsed.t # "obj"
               THEN /\ Return(S("failed to unmarshal Helm release values: ")
                              \o S("unmarshal error"))
                    /\ st' = st
               ELSE \E flatValuesMap \in jsonMapToStringMap(out.parsed.o) :
                      /\ st' = [st EXCEPT !.release_values = flatValuesMap]
                      /\ Return(EmptyStr)
    /\ UNCHANGED <<config, fs, d, id, op, helmCmd, loopVars, nOps, tokVars>>

\* The resource's ReadContext is called.
Read ==
    /\ ~d.isData
    /\ id # EmptyStr
    /\ Enter("read")
    /\ pc' = "list"
    /\ calls' = <<>>
    /\ logs' = <<>>
    /\ diags' = EmptyStr
    /\ UNCHANGED <<config, fs, d, id, st, helmCmd, loopVars, tokVars>>

(***************************************************************************)
(* dataSourceHelmReleaseRead                                               *)
(***************************************************************************)
DataSourceRead ==
    /\ d.isData
    /\ Enter("dataread")
    /\ id' = releaseId(d)
    /\ pc' = "list"
    /\ calls' = <<>>
    /\ logs' = <<>>
    /\ diags' = EmptyStr
    /\ UNCHANGED <<config, fs, d, st, helmCmd, loopVars, tokVars>>

(***************************************************************************)
(* resourceHelmReleaseCreateOrUpdate                                       *)
(***************************************************************************)
helmVerb ==
    IF op = "update" THEN S("upgrade") ELSE S("install")

\* Where the handler continues once the clone is done or skipped: the
\* download loop is entered only if its condition holds for attempt 0.
AfterClone(r) ==
    IF r.chart_url # EmptyStr /\ RetryLoopContinues(0, r.max_retries)
    THEN "download" ELSE "depbuild"

\* The handler going from the preparation straight to the command.
AfterPrepareNoBuild(r) ==
    "installcmd"

AfterPrepare(r) ==
    IF r.chart_repository # EmptyStr THEN "installcmd"
    ELSE IF r.git_repository # EmptyStr THEN "clone"
    ELSE AfterClone(r)

\* The path removed and what is below it left behind.
RemoveOnlyPath(files, path) ==
    files \ {path}

\* os.RemoveAll(path): the path and everything below it.
RemoveAll(files, path) ==
    {f \in files : ~(f = path \/ HasPrefix(f, path \o S("/")))}

\* The handler from the end of the values-file loop to the next external
\* step: the value flags and the other flags are appended, the inline values
\* written, and without a post-renderer download the post-renderer flags
\* and custom arguments are appended too.
Continue(r, cfg, args, paths, files, effects) ==
    IF Len(paths) < Len(r.values_files)
    THEN [pc |-> "valuesfile", helmCmd |-> args, fs |-> files, calls |-> effects]
    ELSE LET inline == r.values # EmptyStr
             args1 == ArgsThroughTimeout(r, cfg, args, paths)
             files1 == files \cup (IF inline
                                   THEN {inlineValuesPath(r, cfg), valuesFilePath(r, cfg)}
                                   ELSE {})
             effects1 == effects \o (IF inline
                                     THEN <<Call("mkdir", <<inlineValuesPath(r, cfg)>>, TRUE),
                                            Call("write", <<valuesFilePath(r, cfg), r.values>>,
                                                 TRUE)>>
                                     ELSE <<>>)
         IN  IF r.post_renderer_url # EmptyStr
             THEN [pc |-> "prdownload", helmCmd |-> args1, fs |-> files1,
                   calls |-> effects1]
             ELSE [pc |-> "run", helmCmd |-> FinalArgs(r, cfg, args1),
                   fs |-> files1 \cup Created(PostRendererWrites(r, cfg)),
                   calls |-> effects1 \o PostRendererWrites(r, cfg)]

\* Lines 620-697: inputs are read, the retry delay parsed, and for a git or
\* URL source the repository directory is emptied (git only) and created.
CreateOrUpdate(isUpdate) ==
    /\ ~d.isData
    /\ Enter(IF isUpdate THEN "update" ELSE "create")
    /\ logs' = <<>>
    /\ IF ~ParseDurationOk(d.retry_delay)
       THEN /\ Return(S("invalid retry_delay: ") \o S("time: invalid duration"))
            /\ calls' = <<>>
            /\ fs' = fs
       ELSE /\ pc' = AfterPrepare(d)
            /\ diags' = EmptyStr
            /\ IF d.chart_repository # EmptyStr
               THEN calls' = <<>> /\ fs' = fs
               ELSE LET dir == repoPath(d, config)
                        wipe == d.git_repository # EmptyStr /\ dir \in fs
                    IN  /\ fs' = (IF wipe THEN RemoveAll(fs, dir) ELSE fs) \cup {dir}
                        /\ calls' = (IF wipe THEN <<Call("rmall", <<dir>>, TRUE)>> ELSE <<>>)
                                    \o <<Call("mkdir", <<dir>>, TRUE)>>
    /\ vfPaths' = <<>>
    /\ attempt' = 0
    /\ getErr' = EmptyStr
    /\ helmCmd' = <<>>
    /\ UNCHANGED <<config, d, id, st, tokVars>>

\* CreateContext, called for a release that has no ID yet.
Create ==
    /\ id = EmptyStr
    /\ CreateOrUpdate(FALSE)

\* UpdateContext, called for a release that has an ID.
Update ==
    /\ id # EmptyStr
    /\ CreateOrUpdate(TRUE)

\* Lines 699-713: git clone.
GitClone ==
    /\ pc = "clone"
    /\ \E proc \in ProcRuns :
         LET cloneArgs == <<S("git"), S("clone"), S("--depth"), S("1"), S("--single-branch")>>
                          \o (IF d.insecure THEN <<S("-c"), S("http.sslVerify=false")>>
                              ELSE <<>>)
                          \o <<S("--branch"), d.git_reference, d.git_repository,
                               repoPath(d, config)>>
         IN  /\ calls' = Append(calls, Call("git", cloneArgs, proc.ok))
             /\ IF proc.ok
                THEN /\ pc' = AfterClone(d)
                     /\ diags' = diags
                     /\ fs' = fs \cup {PathJoin(<<repoPath(d, config), S(".git")>>)}
                ELSE /\ Return(S("failed to clone the Git repository: ") \o ExitError
                               \o S("\nCommand output: ") \o proc.stderr)
                     /\ fs' = fs
    /\ logs' = Append(logs, S("Git Repository cloning: ") \o d.git_repository)
    /\ UNCHANGED <<config, d, id, st, op, helmCmd, loopVars, nOps, tokVars>>

getMode(r) ==
    IF r.chart_path # EmptyStr \/ chartURLHasSubdir(r.chart_url)
    THEN S("ClientModeDir") ELSE S("ClientModeAny")

\* Lines 730-741: one iteration of the chart download loop, and the check
\* after the loop when the iteration was the last.
ChartDownload ==
    /\ pc = "download"
    /\ \E res \in GetResults :
         /\ getErr' = res
         /\ IF res = EmptyStr
            THEN /\ calls' = Append(calls, GetCall(<<d.chart_url, repoPath(d, config),
                                                      getMode(d)>>, res))
                 /\ logs' = logs
                 /\ fs' = fs \cup {PathJoin(<<repoPath(d, config), S("Chart.yaml")>>)}
                 /\ attempt' = attempt
                 /\ pc' = "depbuild"
                 /\ diags' = diags
            ELSE /\ calls' = calls \o <<GetCall(<<d.chart_url, repoPath(d, config),
                                                   getMode(d)>>, res),
                                        Call("sleep", <<d.retry_delay>>, TRUE)>>
                 /\ logs' = Append(logs, S("Download attempt failed: ") \o res)
                 /\ fs' = fs
                 /\ attempt' = attempt + 1
                 /\ IF RetryLoopContinues(attempt + 1, d.max_retries)
                    THEN pc' = "download" /\ diags' = diags
                    ELSE Return(S("failed to fetch the repository after retries: ") \o res)
    /\ UNCHANGED <<config, d, id, st, op, helmCmd, vfPaths, nOps, tokVars>>

\* Lines 744-754: helm dependency build.
DependencyBuild ==
    /\ pc = "depbuild"
    /\ \E run \in ExecRunsOf(config.KubeAuth), proc \in ProcRuns :
         \E c \in helmCmdFunc(config.KubeAuth,
                              <<S("dependency"), S("build"), fullChartPath(d, config)>>,
                              run) :
            IF c.err # EmptyStr
            THEN /\ calls' = calls \o c.calls
                 /\ logs' = logs \o c.logs
                 /\ Return(c.err)
            ELSE /\ calls' = calls \o c.calls
                             \o <<HelmRun(c.cmd, proc.ok, proc.stdout, proc.stderr)>>
                 /\ logs' = logs \o c.logs
                 /\ IF proc.ok
                    THEN pc' = "installcmd" /\ diags' = diags
                    ELSE Return(S("failed to run 'helm dependency build': ") \o ExitError
                                \o S("\nHelm output: ") \o proc.stderr)
    /\ UNCHANGED <<config, fs, d, id, st, op, helmCmd, loopVars, nOps, tokVars>>

\* Lines 757-782: the install/upgrade command is built, --repo appended and
\* the values directory created; the values-file loop runs up to its first
\* download.
InstallCommand ==
    /\ pc = "installcmd"
    /\ \E run \in ExecRunsOf(config.KubeAuth) :
         \E c \in helmCmdFunc(config.KubeAuth,
                              <<helmVerb, d.name, fullChartPath(d, config)>>, run) :
            /\ logs' = logs \o c.logs
            /\ IF c.err # EmptyStr
               THEN /\ calls' = calls \o c.calls
                    /\ Return(c.err)
                    /\ UNCHANGED <<fs, helmCmd, vfPaths>>
               ELSE LET args == c.cmd \o OptFlag("--repo", chartRepoURL(d))
                        mk == d.values # EmptyStr \/ Len(d.values_files) > 0
                        paths == AdvanceValuesFiles(d, config, <<>>)
                        next == Continue(d, config, args, paths,
                                         fs \cup (IF mk THEN {valuesPath(d, config)} ELSE {}),
                                         calls \o c.calls
                                         \o (IF mk
                                             THEN <<Call("mkdir", <<valuesPath(d, config)>>,
                                                         TRUE)>>
                                             ELSE <<>>))
                    IN  /\ vfPaths' = paths
                        /\ pc' = next.pc
                        /\ helmCmd' = next.helmCmd
                        /\ fs' = next.fs
                        /\ calls' = next.calls
                        /\ diags' = diags
    /\ attempt' = 0
    /\ getErr' = EmptyStr
    /\ UNCHANGED <<config, d, id, st, op, nOps, tokVars>>

\* Lines 793-815: one iteration of the download loop of the values file
\* the loop stands at; after a success the values-file loop goes on to its
\* next download.
ValuesFileDownload ==
    /\ pc = "valuesfile"
    /\ LET vf == d.values_files[Len(vfPaths) + 1]
           dst == vDst(d, config, vf)
       IN  \E res \in GetResults :
             /\ getErr' = res
             /\ IF res = EmptyStr
                THEN LET paths == AdvanceValuesFiles(d, config, Append(vfPaths, dst))
                         next == Continue(d, config, helmCmd, paths, fs \cup {dst},
                                          Append(calls, GetCall(<<vf, dst,
                                                                  S("ClientModeFile")>>,
                                                                res)))
                     IN  /\ vfPaths' = paths
                         /\ pc' = next.pc
                         /\ helmCmd' = next.helmCmd
                         /\ fs' = next.fs
                         /\ calls' = next.calls
                         /\ logs' = logs
                         /\ attempt' = 0
                         /\ diags' = diags
                ELSE /\ calls' = calls \o <<GetCall(<<vf, dst, S("ClientModeFile")>>, res),
                                            Call("sleep", <<d.retry_delay>>, TRUE)>>
                     /\ logs' = Append(logs, S("Value file download attempt failed: ") \o res)
                     /\ attempt' = attempt + 1
                     /\ UNCHANGED <<fs, helmCmd, vfPaths>>
                     /\ IF RetryLoopContinues(attempt + 1, d.max_retries)
                        THEN pc' = "valuesfile" /\ diags' = diags
                        ELSE Return(S("failed to fetch value file after retries: ") \o res)
    /\ UNCHANGED <<config, d, id, st, op, nOps, tokVars>>

\* Lines 872-934: the post-renderer is downloaded (one attempt), made
\* executable when it is the command, and the post-renderer flags and the
\* custom arguments are appended.
PostRendererDownload ==
    /\ pc = "prdownload"
    /\ LET dst == postRendererDst(d, config)
           mode == IF d.post_renderer = EmptyStr THEN S("ClientModeFile")
                   ELSE S("ClientModeAny")
       IN  \E res \in GetResults :
             /\ logs' = Append(logs, S("Downloading post-renderer script from ")
                                     \o d.post_renderer_url)
             /\ IF res # EmptyStr
                THEN /\ calls' = Append(calls, GetCall(<<d.post_renderer_url, dst, mode>>,
                                                      res))
                     /\ Return(S("failed to download post-renderer script: ") \o res)
                     /\ UNCHANGED <<fs, helmCmd>>
                ELSE /\ calls' = calls
                                 \o <<GetCall(<<d.post_renderer_url, dst, mode>>, res)>>
                                 \o (IF d.post_renderer = EmptyStr
                                     THEN <<Call("chmod", <<dst>>, TRUE)>> ELSE <<>>)
                                 \o PostRendererWrites(d, config)
                     /\ fs' = fs \cup {dst} \cup Created(PostRendererWrites(d, config))
                     /\ helmCmd' = FinalArgs(d, config, helmCmd)
                     /\ pc' = "run"
                     /\ diags' = diags
    /\ UNCHANGED <<config, d, id, st, op, loopVars, nOps, tokVars>>

helmCmdString ==
    Join(helmCmd, S(" "))

\* The ID set before the outcome of the command is looked at.
IdSetBeforeRun(r, cur, ok) ==
    releaseId(r)

\* d.Id() after the install/upgrade command has run: d.SetId is reached
\* only when Run returned no error.
IdAfterRun(r, cur, ok) ==
    IF ok THEN releaseId(r) ELSE cur

\* Lines 936-957: the command is logged and run; on success the ID is set
\* and the release is read.
RunHelm ==
    /\ pc = "run"
    /\ logs' = Append(logs, S("Running Helm command: ") \o helmCmdString)
    /\ \E proc \in ProcRuns :
         /\ calls' = Append(calls, HelmRun(helmCmd, proc.ok, proc.stdout, proc.stderr))
         /\ id' = IdAfterRun(d, id, proc.ok)
         /\ IF proc.ok
            THEN /\ pc' = "list"
                 /\ diags' = diags
            ELSE /\ Return(S("failed to ") \o helmVerb \o S(" the Helm chart: ") \o ExitError
                           \o S("\nHelm command: ") \o helmCmdString
                           \o S("\nHelm output: ") \o proc.stderr
                           \o (IF d.debug
                               THEN S("\nHelm stdout: ") \o proc.stdout
                                    \o S("\nHelm stderr: ") \o proc.stderr
                               ELSE <<>>))
    /\ UNCHANGED <<config, fs, d, st, op, helmCmd, loopVars, nOps, tokVars>>

(***************************************************************************)
(* The resource and data source under the calls of the plugin SDK          *)
(***************************************************************************)
Next ==
    \/ Create
    \/ Update
    \/ GitClone
    \/ ChartDownload
    \/ DependencyBuild
    \/ InstallCommand
    \/ ValuesFileDownload
    \/ PostRendererDownload
    \/ RunHelm
    \/ Read
    \/ DataSourceRead
    \/ ReadList
    \/ ReadUserValues
    \/ ReadAllValues
    \/ Delete

Spec ==
    Init /\ [][Next]_vars

TypeOK ==
    /\ pc \in {"parse", "parsed", "flatten", "flattened", "build", "built", "idle", "clone", "download", "depbuild", "installcmd", "valuesfile",
               "prdownload", "run", "list", "uservalues", "allvalues"}
    /\ op \in {"none", "plan", "create", "update", "read", "dataread", "delete"}
    /\ nOps \in 0..MaxOps

(***************************************************************************)
(* parseKubeExecToken applied to exec-credential outputs                   *)
(***************************************************************************)
JAbsent ==
    [t |-> "absent", s |-> <<>>, o |-> <<>>, a |-> <<>>]

\* The object holding the pairs <<key, value>> whose value is present.
ObjOf(pairs) ==
    LET present == {i \in 1..Len(pairs) : pairs[i][2].t # "absent"}
    IN  JObj([k \in {pairs[i][1] : i \in present} |->
                pairs[CHOOSE i \in present : pairs[i][1] = k][2]])

\* What a key can hold: nothing, "", a number, or a token naming the place.
LeafOpts(place) ==
    {JAbsent, JStr(EmptyStr), JNum(S("5")), JStr(<<" ", place, " ">>)}

StatusOpts ==
    {JAbsent, JStr(S("ready"))}
    \cup {ObjOf(<< <<S("token"), a>>, <<S("Token"), b>>, <<<<"access", "Token">>, c>> >>) :
            a \in LeafOpts("status.token"), b \in LeafOpts("status.Token"),
            c \in LeafOpts("status.accessToken")}

DataOpts ==
    {JAbsent,
     ObjOf(<< <<<<"id", "_", "token">>, JStr(S("data.id_token"))>> >>),
     JArr(<<JStr(S("x")), ObjOf(<< <<S("token"), JStr(S("data[2].token"))>> >>)>>)}

TokenObjects ==
    {ObjOf(<< <<S("status"), st0>>, <<S("token"), a>>, <<S("Token"), b>>,
              <<<<"access", "_", "token">>, c>>, <<S("data"), e>>,
              <<S("kind"), JStr(S("ExecCredential"))>> >>) :
        st0 \in StatusOpts, a \in LeafOpts("token"), b \in LeafOpts("Token"),
        c \in LeafOpts("access_token"), e \in DataOpts}

TokenOutputs ==
    {Stdout(<<"{", "object", "}">>, v) : v \in TokenObjects}
    \cup {Stdout(<<"[", "array", "]">>, JArr(<<v>>)) : v \in DataOpts \ {JAbsent}}
    \cup {Stdout(S("raw-token"), JInvalid),
          Stdout(<<"\"", "quoted-token", "\"">>, JStr(S("quoted-token"))),
          Stdout(<<"\"", " ", "\"">>, JStr(S(" "))),
          Stdout(<<"{", "invalid", "}">>, JInvalid),
          Stdout(EmptyStr, JInvalid),
          Stdout(<<" ", "raw token", "\n">>, JInvalid),
          Stdout(<<"\n", "\"", " ", "padded-token", " ", "\"", "\n">>,
                 JStr(<<" ", "padded-token", " ">>)),
          Stdout(<<" ", "[", "strings", "]", "\n">>, JArr(<<JStr(S("token"))>>)),
          Stdout(<<"5">>, JNum(S("5"))),
          Stdout(<<"{", "nested", "}">>,
                 ObjOf(<< <<S("data"), ObjOf(<< <<<<"id", "_", "token">>,
                                                  JStr(S("data.id_token"))>> >>)>>,
                          <<S("extra"), ObjOf(<< <<S("token"),
                                                   JStr(S("extra.token"))>> >>)>> >>)),
          Stdout(<<" ", "\n">>, JInvalid)}

InitToken ==
    /\ config = ConfigPlain
    /\ d = BaseSpec
    /\ fs = {}
    /\ id = EmptyStr
    /\ st = NoState
    /\ op = "none"
    /\ pc = "parse"
    /\ helmCmd = <<>>
    /\ vfPaths = <<>>
    /\ attempt = 0
    /\ getErr = EmptyStr
    /\ calls = <<>>
    /\ logs = <<>>
    /\ diags = EmptyStr
    /\ nOps = 0
    /\ tokIn \in TokenOutputs
    /\ tokOut = TokOk(EmptyStr)
    /\ jsonIn = JObj(<<>>)
    /\ jsonOut = <<>>
    /\ cache = {}
    /\ helmArgs = <<>>
    /\ inflight = <<>>
    /\ repos = NoRepos

\* Line 359: parseKubeExecToken returns for the trimmed stdout.
ParseToken ==
    /\ pc = "parse"
    /\ pc' = "parsed"
    /\ tokOut' \in parseKubeExecToken(Stdout(TrimSpace(tokIn.text), tokIn.parsed))
    /\ UNCHANGED <<config, fs, d, id, st, op, helmCmd, loopVars, calls, logs, diags,
                   nOps, tokIn, jsonIn, jsonOut, cache, helmArgs,
                   inflight, repos>>

NextToken ==
    ParseToken

SpecToken ==
    InitToken /\ [][NextToken]_vars

(***************************************************************************)
(* jsonMapToStringMap applied to decoded release values                    *)
(***************************************************************************)
\* Release values: a key that is a scalar or an object, keys that contain
\* dots, numbers, booleans, an array and an empty object.
ValueObjects ==
    {ObjOf(<< <<S("a"), a>>, <<<<"a", ".", "b">>, ab>>, <<S("c"), c>>,
              <<<<"a", ".", "b", ".", "c">>, abc>> >>) :
        a \in {JAbsent, JStr(S("x")),
               ObjOf(<< <<S("b"), JStr(S("x"))>> >>),
               ObjOf(<< <<S("b"), JNum(S("42"))>>, <<<<"b", ".", "c">>, JStr(S("v"))>> >>),
               ObjOf(<< <<S("b"), ObjOf(<< <<S("c"), JStr(S("z"))>> >>)>> >>)},
        ab \in {JAbsent, JStr(S("y")), JStr(S("x")),
                ObjOf(<< <<S("c"), JStr(S("w"))>> >>)},
        c \in {JAbsent, JNum(S("true")), JNum(S("1000000")), JObj(<<>>),
               JArr(<<JNum(S("42.0")), JStr(S("x"))>>)},
        abc \in {JAbsent, JStr(S("z"))}}

InitFlatten ==
    /\ config = ConfigPlain
    /\ d = BaseSpec
    /\ fs = {}
    /\ id = EmptyStr
    /\ st = NoState
    /\ op = "none"
    /\ pc = "flatten"
    /\ helmCmd = <<>>
    /\ vfPaths = <<>>
    /\ attempt = 0
    /\ getErr = EmptyStr
    /\ calls = <<>>
    /\ logs = <<>>
    /\ diags = EmptyStr
    /\ nOps = 0
    /\ tokIn = NoStdout
    /\ tokOut = TokOk(EmptyStr)
    /\ jsonIn \in ValueObjects
    /\ jsonOut = <<>>
    /\ cache = {}
    /\ helmArgs = <<>>
    /\ inflight = <<>>
    /\ repos = NoRepos

\* Line 598: jsonMapToStringMap returns for the decoded values.
ConvertValues ==
    /\ pc = "flatten"
    /\ pc' = "flattened"
    /\ jsonOut' \in jsonMapToStringMap(jsonIn.o)
    /\ UNCHANGED <<config, fs, d, id, st, op, helmCmd, loopVars, calls, logs, diags,
                   nOps, tokIn, tokOut, jsonIn, cache, helmArgs,
                   inflight, repos>>

NextFlatten ==
    ConvertValues

SpecFlatten ==
    InitFlatten /\ [][NextFlatten]_vars

(***************************************************************************)
(* helmCmdFunc applied to the commands of the handlers                     *)
(***************************************************************************)
\* Every combination of the settings of the provider being set or not.
AuthConfigs ==
    {[ConfigPlain EXCEPT !.KubeAuth =
        [KubeAPIServer |-> IF 1 \in on THEN FullAuth.KubeAPIServer ELSE EmptyStr,
         KubeAsUser |-> IF 2 \in on THEN FullAuth.KubeAsUser ELSE EmptyStr,
         KubeAsGroup |-> IF 3 \in on THEN FullAuth.KubeAsGroup ELSE EmptyStr,
         KubeCAFile |-> IF 4 \in on THEN FullAuth.KubeCAFile ELSE EmptyStr,
         KubeContext |-> IF 5 \in on THEN FullAuth.KubeContext ELSE EmptyStr,
         KubeInsecureSkipTLSVerify |-> 6 \in on,
         KubeTLSServerName |-> IF 7 \in on THEN FullAuth.KubeTLSServerName ELSE EmptyStr,
         KubeToken |-> IF 8 \in on THEN StaticToken ELSE EmptyStr,
         Kubeconfig |-> IF 9 \in on THEN FullAuth.Kubeconfig ELSE EmptyStr,
         KubeExec |-> IF 10 \in on THEN [present |-> TRUE, Command |-> S("aws-token")]
                      ELSE NoKubeExec]] : on \in SUBSET (1..10)}

\* The arguments the handlers hand to config.HelmCmd.
HandlerCommands ==
    {uninstallArgs(BaseSpec),
     <<S("list"), S("-n"), BaseSpec.namespace, S("-f"), BaseSpec.name, S("-o"), S("json")>>,
     <<S("get"), S("values"), S("-n"), BaseSpec.namespace, BaseSpec.name, S("-o"), S("yaml")>>,
     <<S("get"), S("values"), S("-n"), BaseSpec.namespace, BaseSpec.name, S("-a"),
       S("-o"), S("json")>>,
     <<S("dependency"), S("build"), BaseSpec.chart_path>>,
     <<S("install"), BaseSpec.name, BaseSpec.chart_path>>,
     <<S("upgrade"), BaseSpec.name, BaseSpec.chart_path>>}

InitHelmCmd ==
    /\ config \in AuthConfigs
    /\ d = BaseSpec
    /\ fs = {}
    /\ id = EmptyStr
    /\ st = NoState
    /\ op = "none"
    /\ pc = "build"
    /\ helmCmd = <<>>
    /\ vfPaths = <<>>
    /\ attempt = 0
    /\ getErr = EmptyStr
    /\ calls = <<>>
    /\ logs = <<>>
    /\ diags = EmptyStr
    /\ nOps = 0
    /\ tokIn = NoStdout
    /\ tokOut = TokOk(EmptyStr)
    /\ jsonIn = JObj(<<>>)
    /\ jsonOut = <<>>
    /\ cache = {}
    /\ helmArgs \in HandlerCommands
    /\ inflight = <<>>
    /\ repos = NoRepos

\* config.HelmCmd returns for the arguments.
BuildHelmCommand ==
    /\ pc = "build"
    /\ pc' = "built"
    /\ \E run \in ExecRunsOf(config.KubeAuth) :
         \E c \in helmCmdFunc(config.KubeAuth, helmArgs, run) :
            /\ helmCmd' = c.cmd
            /\ diags' = c.err
            /\ calls' = c.calls
            /\ logs' = c.logs
    /\ UNCHANGED <<config, fs, d, id, st, op, loopVars, nOps, tokVars>>

NextHelmCmd ==
    BuildHelmCommand

SpecHelmCmd ==
    InitHelmCmd /\ [][NextHelmCmd]_vars

(***************************************************************************)
(* Create/update calls running side by side on one cache directory         *)
(***************************************************************************)
\* The goroutines Terraform runs the calls in.
Procs ==
    {1, 2}

OtherGitRepo ==
    <<"https:", "/", "/", "git.example.com", "/", "team", "/", "platform.git">>

\* Releases with a git or chart_url source, of two names in two namespaces.
ConcurrentSpecs ==
    {[BaseSpec EXCEPT !.name = n, !.namespace = ns,
                      !.git_repository = src[1], !.git_reference = src[2],
                      !.chart_url = src[3]]
        : n \in {S("nginx"), S("redis")},
          ns \in {S("web"), S("db")},
          src \in {<<GitRepo75030, S("main"), EmptyStr>>,
                   <<GitRepo128089, S("main"), EmptyStr>>,
                   <<OtherGitRepo, S("main"), EmptyStr>>,
                   <<EmptyStr, EmptyStr, ChartURL>>}}

\* A call that has not been entered yet.
Waiting(r) ==
    [r |-> r, pc |-> "idle", err |-> EmptyStr, present |-> FALSE, chart |-> {}]

InitConcurrent ==
    /\ config = ConfigPlain
    /\ d = BaseSpec
    /\ fs = {}
    /\ id = EmptyStr
    /\ st = NoState
    /\ op = "none"
    /\ pc = "idle"
    /\ helmCmd = <<>>
    /\ vfPaths = <<>>
    /\ attempt = 0
    /\ getErr = EmptyStr
    /\ calls = <<>>
    /\ logs = <<>>
    /\ diags = EmptyStr
    /\ nOps = 0
    /\ tokIn = NoStdout
    /\ tokOut = TokOk(EmptyStr)
    /\ jsonIn = JObj(<<>>)
    /\ jsonOut = <<>>
    /\ cache = {}
    /\ helmArgs = <<>>
    /\ inflight \in [Procs -> {Waiting(r) : r \in ConcurrentSpecs}]
    /\ repos = NoRepos

\* Call p moves to position to; nothing but the shared directory and the
\* call itself changes.
Step(p, from, to) ==
    /\ inflight[p].pc = from
    /\ inflight' = [inflight EXCEPT ![p].pc = to]
    /\ UNCHANGED <<config, fs, d, id, st, op, pc, helmCmd, loopVars, calls, logs,
                   diags, nOps, tokIn, tokOut, jsonIn, jsonOut, cache, helmArgs>>

\* resourceHelmReleaseCreateOrUpdate is entered and has computed repoPath.
Begin(p) ==
    /\ Step(p, "idle", "stat")
    /\ repos' = repos

\* os.Stat and os.RemoveAll of repoPath, for a git source only.
RemoveExisting(p) ==
    LET r == inflight[p].r
        dir == repoPath(r, config)
    IN  /\ Step(p, "stat", "mkdir")
        /\ repos' = IF r.git_repository # EmptyStr /\ dir \in repos.dirs
                     THEN [dirs |-> repos.dirs \ {dir},
                           files |-> {f \in repos.files : f[1] # dir}]
                     ELSE repos

\* os.MkdirAll(repoPath).
MkdirRepo(p) ==
    LET r == inflight[p].r
    IN  /\ Step(p, "mkdir", IF r.git_repository # EmptyStr THEN "clone" ELSE "download")
        /\ repos' = [repos EXCEPT !.dirs = @ \cup {repoPath(r, config)}]

\* git clone into repoPath: on success the work tree of the repository is
\* in the directory.
CloneRepo(p) ==
    LET r == inflight[p].r
        dir == repoPath(r, config)
    IN  /\ inflight[p].pc = "clone"
        /\ \E ok \in BOOLEAN :
             /\ inflight' = [inflight EXCEPT
                    ![p].pc = IF ~ok THEN "done"
                              ELSE IF r.chart_url # EmptyStr THEN "download" ELSE "use",
                    ![p].err = IF ok THEN EmptyStr
                               ELSE S("failed to clone the Git repository: ") \o ExitError]
             /\ repos' = IF ok
                          THEN [dirs |-> repos.dirs \cup {dir},
                                files |-> repos.files \cup {<<dir, r.git_repository>>}]
                          ELSE repos
        /\ UNCHANGED <<config, fs, d, id, st, op, pc, helmCmd, loopVars, calls, logs,
                       diags, nOps, tokIn, tokOut, jsonIn, jsonOut, cache, helmArgs>>

\* client.Get of chart_url into repoPath, retries folded into the outcome.
DownloadRepo(p) ==
    LET r == inflight[p].r
        dir == repoPath(r, config)
    IN  /\ inflight[p].pc = "download"
        /\ \E ok \in BOOLEAN :
             /\ inflight' = [inflight EXCEPT
                    ![p].pc = IF ok THEN "use" ELSE "done",
                    ![p].err = IF ok THEN EmptyStr
                               ELSE S("failed to fetch the repository after retries: ")
                                    \o S("get error")]
             /\ repos' = IF ok
                          THEN [dirs |-> repos.dirs \cup {dir},
                                files |-> repos.files \cup {<<dir, r.chart_url>>}]
                          ELSE repos
        /\ UNCHANGED <<config, fs, d, id, st, op, pc, helmCmd, loopVars, calls, logs,
                       diags, nOps, tokIn, tokOut, jsonIn, jsonOut, cache, helmArgs>>

\* helm dependency build and install/upgrade read the chart below repoPath:
\* the call is given whatever is in the directory at that moment.
UseRepo(p) ==
    LET dir == repoPath(inflight[p].r, config)
    IN  /\ inflight[p].pc = "use"
        /\ inflight' = [inflight EXCEPT
               ![p].pc = "done",
               ![p].present = dir \in repos.dirs,
               ![p].chart = {f[2] : f \in {g \in repos.files : g[1] = dir}}]
        /\ repos' = repos
        /\ UNCHANGED <<config, fs, d, id, st, op, pc, helmCmd, loopVars, calls, logs,
                       diags, nOps, tokIn, tokOut, jsonIn, jsonOut, cache, helmArgs>>

NextConcurrent ==
    \E p \in Procs :
        \/ Begin(p)
        \/ RemoveExisting(p)
        \/ MkdirRepo(p)
        \/ CloneRepo(p)
        \/ DownloadRepo(p)
        \/ UseRepo(p)

SpecConcurrent ==
    InitConcurrent /\ [][NextConcurrent]_vars

(***************************************************************************)
(* What create/update calls leave below the cache directory               *)
(***************************************************************************)
\* Something written at a cache path: a directory or a file with its
\* content, generated by the provider or fetched by the getter.
Artifact(path, kind, content, origin) ==
    [path |-> path, kind |-> kind, content |-> content, origin |-> origin]

\* What a source serves: the content depends on when it is fetched.
RemoteBodies ==
    {S("v1"), S("v2")}

Fetched(src, body) ==
    src \o S("@") \o body

\* Lines 770-782 and 824-844: the values directories and the inline values
\* file.
ValuesArtifacts(r, cfg) ==
    (IF r.values # EmptyStr \/ Len(r.values_files) > 0
     THEN {Artifact(valuesPath(r, cfg), "dir", EmptyStr, "generated")} ELSE {})
    \cup (IF r.values # EmptyStr
          THEN {Artifact(inlineValuesPath(r, cfg), "dir", EmptyStr, "generated"),
                Artifact(valuesFilePath(r, cfg), "file", r.values, "generated")}
          ELSE {})

\* Lines 786-815: the values files the getter writes.
ValuesFileArtifacts(r, cfg, body) ==
    {Artifact(vDst(r, cfg, r.values_files[i]), "file",
              Fetched(r.values_files[i], body), "fetched") :
        i \in {j \in 1..Len(r.values_files) :
                 /\ ~isLocalValuesFile(r, cfg, r.values_files[j])
                 /\ RetryLoopContinues(0, r.max_retries)}}

\* Lines 872-901 and 1050-1088: the post-renderer download and the plugin.
PostRendererArtifacts(r, cfg, body) ==
    LET effects == PostRendererWrites(r, cfg)
    IN  (IF r.post_renderer_url # EmptyStr
         THEN {Artifact(postRendererDst(r, cfg), "file",
                        Fetched(r.post_renderer_url, body), "fetched")}
         ELSE {})
        \cup {IF effects[i].kind = "mkdir"
              THEN Artifact(effects[i].argv[1], "dir", EmptyStr, "generated")
              ELSE Artifact(effects[i].argv[1], "file", effects[i].argv[2], "generated") :
                i \in 1..Len(effects)}

\* The artifacts of one create/update call that reaches the Helm command.
Artifacts(r, cfg, body) ==
    ValuesArtifacts(r, cfg) \cup ValuesFileArtifacts(r, cfg, body)
    \cup PostRendererArtifacts(r, cfg, body)

\* Releases of two names whose chart comes from a repository, with inline
\* values, a fetched values file, a post-renderer command and a fetched
\* post-renderer.
CacheSpecs ==
    {[ReleaseSpec("alias", "none", 1, 0)
        EXCEPT !.name = n, !.values = v, !.values_files = vf,
               !.post_renderer = pr[1], !.post_renderer_url = pr[2]] :
        n \in {S("nginx"), S("redis")},
        v \in {EmptyStr, InlineValues, <<"replicaCount:", " ", "2">>},
        vf \in {<<>>, <<RemoteValuesA>>},
        pr \in {<<EmptyStr, EmptyStr>>, <<<<"kustomize", " ", "build">>, EmptyStr>>,
                <<EmptyStr, PostRendererURL>>}}

InitCache ==
    /\ config \in {ConfigPlain, [ConfigPlain EXCEPT !.HelmMajor = 4]}
    /\ d = BaseSpec
    /\ fs = {}
    /\ id = EmptyStr
    /\ st = NoState
    /\ op = "none"
    /\ pc = "idle"
    /\ helmCmd = <<>>
    /\ vfPaths = <<>>
    /\ attempt = 0
    /\ getErr = EmptyStr
    /\ calls = <<>>
    /\ logs = <<>>
    /\ diags = EmptyStr
    /\ nOps = 0
    /\ tokIn = NoStdout
    /\ tokOut = TokOk(EmptyStr)
    /\ jsonIn = JObj(<<>>)
    /\ jsonOut = <<>>
    /\ cache = {}
    /\ helmArgs = <<>>
    /\ inflight = <<>>
    /\ repos = NoRepos

\* A create/update call on some release writes its artifacts, whatever was
\* written at their paths before.
WriteArtifacts ==
    /\ nOps < MaxOps
    /\ nOps' = nOps + 1
    /\ \E r \in CacheSpecs, body \in RemoteBodies :
         /\ d' = r
         /\ cache' = cache \cup Artifacts(r, config, body)
    /\ UNCHANGED <<config, fs, id, st, op, pc, helmCmd, loopVars, calls, logs, diags,
                   tokIn, tokOut, jsonIn, jsonOut, helmArgs,
                   inflight, repos>>

NextCache ==
    WriteArtifacts

SpecCache ==
    InitCache /\ [][NextCache]_vars

(***************************************************************************)
(* The handlers called on a release whose sources were not validated, as   *)
(* the tests of the resource call them, and the CustomizeDiff validation   *)
(***************************************************************************)
\* CustomizeDiff: the error it returns, EmptyStr for nil.  GetOk reports a
\* string field as set when it is not the empty string.
CustomizeDiff(r) ==
    LET gitRepoOk == r.git_repository # EmptyStr
        helmRepoOk == r.chart_repository # EmptyStr
        chartUrlOk == r.chart_url # EmptyStr
        gitRefOk == r.git_reference # EmptyStr
        numFieldsSet == (IF gitRepoOk THEN 1 ELSE 0) + (IF helmRepoOk THEN 1 ELSE 0)
                        + (IF chartUrlOk THEN 1 ELSE 0)
    IN  IF numFieldsSet = 0
        THEN S("either 'git_repository', 'chart_repository', 'chart_url' must be set")
        ELSE IF numFieldsSet # 1
        THEN S("only one of 'git_repository', 'chart_repository', or 'chart_url' can be set")
        ELSE IF gitRefOk /\ ~gitRepoOk
        THEN S("'git_reference' can be used only with 'git_repository'")
        ELSE EmptyStr

\* Every combination of the source fields being set or not.
SourceCombinations ==
    {[BaseSpec EXCEPT !.chart_repository = repo, !.git_repository = git,
                      !.git_reference = ref, !.chart_url = url] :
        repo \in {EmptyStr, S("bitnami")}, git \in {EmptyStr, GitRepo},
        ref \in {EmptyStr, S("main")}, url \in {EmptyStr, ChartURL}}

InitDirect ==
    /\ config = ConfigPlain
    /\ d \in SourceCombinations
    /\ fs = {}
    /\ id = EmptyStr
    /\ st = NoState
    /\ op = "none"
    /\ pc = "idle"
    /\ helmCmd = <<>>
    /\ vfPaths = <<>>
    /\ attempt = 0
    /\ getErr = EmptyStr
    /\ calls = <<>>
    /\ logs = <<>>
    /\ diags = EmptyStr
    /\ nOps = 0
    /\ tokIn = NoStdout
    /\ tokOut = TokOk(EmptyStr)
    /\ jsonIn = JObj(<<>>)
    /\ jsonOut = <<>>
    /\ cache = {}
    /\ helmArgs = <<>>
    /\ inflight = <<>>
    /\ repos = NoRepos

\* The plan of the release: CustomizeDiff is called on the configuration.
Plan ==
    /\ op = "none"
    /\ pc = "idle"
    /\ op' = "plan"
    /\ diags' = CustomizeDiff(d)
    /\ UNCHANGED <<config, fs, d, id, st, pc, helmCmd, loopVars, calls, logs, nOps,
                   tokVars>>

NextDirect ==
    \/ Plan
    \/ Create
    \/ Update
    \/ GitClone
    \/ ChartDownload
    \/ DependencyBuild
    \/ InstallCommand
    \/ RunHelm
    \/ ReadList
    \/ ReadUserValues
    \/ ReadAllValues

SpecDirect ==
    InitDirect /\ [][NextDirect]_vars

(***************************************************************************)
(* Properties                                                              *)
(***************************************************************************)
Min(set) ==
    CHOOSE x \in set : \A y \in set : x <= y

Max(set) ==
    CHOOSE x \in set : \A y \in set : y <= x

\* The non-empty trimmed strings an object holds at a path, keys compared
\* in normal form.
RECURSIVE StringsAt(_, _)
StringsAt(v, path) ==
    IF path = <<>>
    THEN IF v.t = "str" /\ TrimSpace(v.s) # EmptyStr THEN {TrimSpace(v.s)} ELSE {}
    ELSE IF v.t # "obj" THEN {}
    ELSE UNION {StringsAt(v.o[k], Tail(path)) :
                  k \in {k2 \in DOMAIN v.o :
                           normalizeTokenKey(k2) = normalizeTokenKey(Head(path))}}

\* The non-empty trimmed strings held under a token-like key anywhere.
RECURSIVE DeepTokens(_)
DeepTokens(v) ==
    CASE v.t = "obj" ->
           UNION {(IF isTokenKey(k) THEN StringsAt(v.o[k], <<>>) ELSE {})
                  \cup DeepTokens(v.o[k]) : k \in DOMAIN v.o}
      [] v.t = "arr" -> UNION {DeepTokens(v.a[i]) : i \in 1..Len(v.a)}
      [] OTHER -> {}

PathHits(v) ==
    {i \in 1..Len(preferredPaths) : StringsAt(v, preferredPaths[i]) # {}}

\* No object of the value has two keys with the same normal form.
RECURSIVE UniqueKeys(_)
UniqueKeys(v) ==
    CASE v.t = "obj" ->
           /\ \A k1, k2 \in DOMAIN v.o :
                normalizeTokenKey(k1) = normalizeTokenKey(k2) => k1 = k2
           /\ \A k \in DOMAIN v.o : UniqueKeys(v.o[k])
      [] v.t = "arr" -> \A i \in 1..Len(v.a) : UniqueKeys(v.a[i])
      [] OTHER -> TRUE

\* C10: for a JSON object the token returned is the first non-empty string
\* found at the preferred paths, tried in their order with keys compared in
\* normal form; only when no preferred path holds a token does the token
\* come from the scan of the rest of the structure.
C10_PreferredPathOrder ==
    (pc = "parsed" /\ looksLikeJSON(TrimSpace(tokIn.text)) /\ tokIn.parsed.t = "obj") =>
        IF PathHits(tokIn.parsed) # {}
        THEN /\ tokOut.err = EmptyStr
             /\ tokOut.token \in StringsAt(tokIn.parsed,
                                           preferredPaths[Min(PathHits(tokIn.parsed))])
        ELSE tokOut.err = EmptyStr => tokOut.token \in DeepTokens(tokIn.parsed)

\* The same for objects in which no two keys share a normal form.
C10_UniqueKeysOrder ==
    UniqueKeys(tokIn.parsed) => C10_PreferredPathOrder

JSONStart ==
    {"{", "[", "\""}

\* C11: stdout whose first non-blank character does not open a JSON object,
\* array or string is returned trimmed as the token; a JSON string literal
\* gives its trimmed content or, when that is empty, an error; text that
\* looks like JSON and does not parse gives an error containing "not valid
\* JSON"; valid JSON holding no token gives an error containing "missing
\* token field".  No token comes with an error and no success is empty.
C11_Classification ==
    pc = "parsed" =>
        LET out == TrimSpace(tokIn.text)
            json == out # EmptyStr /\ out[1] \in JSONStart
            v == tokIn.parsed
        IN  /\ ~(tokOut.token # EmptyStr /\ tokOut.err # EmptyStr)
            /\ tokOut.err = EmptyStr => tokOut.token # EmptyStr
            /\ (out # EmptyStr /\ ~json) => tokOut = TokOk(out)
            /\ out = EmptyStr => tokOut.err # EmptyStr
            /\ (json /\ v.t = "invalid") =>
                   Contains(tokOut.err, S("not valid JSON"))
            /\ (json /\ v.t = "str") =>
                   IF TrimSpace(v.s) = EmptyStr
                   THEN tokOut.err # EmptyStr
                   ELSE tokOut = TokOk(TrimSpace(v.s))
            /\ (json /\ v.t \in {"obj", "arr"} /\ DeepTokens(v) = {}) =>
                   Contains(tokOut.err, S("missing token field"))

C11_Witness ==
    /\ pc = "parsed"
    /\ tokIn.text # TrimSpace(tokIn.text)
    /\ tokIn.parsed.t = "str"
    /\ tokOut = TokOk(S("padded-token"))

(***************************************************************************)
(* Properties of the handlers                                              *)
(***************************************************************************)
HasSuffix(str, suffix) ==
    /\ Len(str) >= Len(suffix)
    /\ SubSeq(str, Len(str) - Len(suffix) + 1, Len(str)) = suffix

\* The arguments that follow each occurrence of a flag, in argv order.
RECURSIVE FlagValuesFrom(_, _, _)
FlagValuesFrom(argv, flag, i) ==
    IF i >= Len(argv) THEN <<>>
    ELSE IF argv[i] = flag THEN <<argv[i + 1]>> \o FlagValuesFrom(argv, flag, i + 2)
    ELSE FlagValuesFrom(argv, flag, i + 1)

FlagValues(argv, flag) ==
    FlagValuesFrom(argv, flag, 1)

\* The effect is a run of Helm with one of the subcommands.
IsHelm(c, verbs) ==
    c.kind = "helm" /\ Len(c.argv) >= 2 /\ c.argv[2] \in verbs

HelmIdx(verbs) ==
    {i \in 1..Len(calls) : IsHelm(calls[i], verbs)}

InstallVerbs ==
    {S("install"), S("upgrade")}

ClusterVerbs ==
    {S("install"), S("upgrade"), S("list"), S("get"), S("uninstall")}

GetIdx(src) ==
    {i \in 1..Len(calls) : calls[i].kind = "get" /\ calls[i].argv[1] = src}

ExecIdx ==
    {i \in 1..Len(calls) : calls[i].kind = "exec"}

InCreateOrUpdate ==
    op \in {"create", "update"}

ExpectedId ==
    d.namespace \o S("/") \o d.name

\* The sources fetched through a retry loop.
RetriedSources ==
    (IF d.chart_url # EmptyStr THEN {d.chart_url} ELSE {})
    \cup {d.values_files[i] : i \in 1..Len(d.values_files)}

\* C1: with max_retries = N >= 0 a retried fetch is attempted at most N+1
\* times, no attempt follows a successful one, and when N+1 attempts have
\* failed the handler has returned an error that ends with the error of the
\* last attempt.
C1_RetryAttempts ==
    (InCreateOrUpdate /\ d.max_retries >= 0) =>
        \A src \in RetriedSources :
            LET idx == GetIdx(src)
                failed == \A i \in idx : ~calls[i].ok
            IN  /\ Cardinality(idx) <= d.max_retries + 1
                /\ \A i \in idx : calls[i].ok => i = Max(idx)
                /\ (idx # {} /\ failed /\ pc = "idle") =>
                       Cardinality(idx) = d.max_retries + 1
                /\ (failed /\ Cardinality(idx) = d.max_retries + 1) =>
                       /\ pc = "idle"
                       /\ diags # EmptyStr
                       /\ HasSuffix(diags, calls[Max(idx)].err)

C1_Witness ==
    /\ InCreateOrUpdate
    /\ pc = "idle"
    /\ d.max_retries >= 1
    /\ \E src \in RetriedSources :
         /\ Cardinality(GetIdx(src)) = d.max_retries + 1
         /\ \A i \in GetIdx(src) : ~calls[i].ok
         /\ calls[Min(GetIdx(src))].err # calls[Max(GetIdx(src))].err

\* C2: in every install/upgrade argv there is one -f flag per values_files
\* entry, in the order of the entries, followed by the -f flag of the
\* inline values file when values is non-empty.
C2_ValuesOrder ==
    \A i \in HelmIdx(InstallVerbs) :
        LET f == FlagValues(calls[i].argv, S("-f"))
            n == Len(d.values_files)
        IN  /\ Len(f) = n + (IF d.values # EmptyStr THEN 1 ELSE 0)
            /\ \A j \in 1..n :
                 f[j] \in {PathJoin(<<repoPath(d, config), d.values_files[j]>>),
                           vDst(d, config, d.values_files[j])}
            /\ d.values # EmptyStr => f[n + 1] = valuesFilePath(d, config)

C2_Witness ==
    /\ HelmIdx(InstallVerbs) # {}
    /\ Len(d.values_files) = 2
    /\ d.values # EmptyStr

InstallSucceeded ==
    \E i \in HelmIdx(InstallVerbs) : calls[i].ok

\* C3: during create the ID is "<namespace>/<name>" exactly when the install
\* command has exited successfully, also when the read after it fails, and
\* is empty otherwise; during update it is never changed.
C3_IdSetOnInstall ==
    /\ op = "create" => id = (IF InstallSucceeded THEN ExpectedId ELSE EmptyStr)
    /\ op = "update" => id = ExpectedId

C3_Witness ==
    /\ op = "create"
    /\ pc = "idle"
    /\ diags # EmptyStr
    /\ InstallSucceeded
    /\ id = ExpectedId

\* C4: delete runs at most one Helm command, `helm uninstall <name>
\* --namespace <namespace>`, and none only when the token could not be
\* resolved; the ID is cleared when the command succeeds, and otherwise an
\* error is returned and the ID is unchanged.
C4_DeleteUninstall ==
    op = "delete" =>
        /\ \A i \in 1..Len(calls) : calls[i].kind \in {"helm", "exec"}
        /\ Cardinality(HelmIdx(ClusterVerbs)) <= 1
        /\ \A i \in 1..Len(calls) :
             calls[i].kind = "helm" =>
                 SubSeq(calls[i].argv, 1, 5)
                     = <<S("helm"), S("uninstall"), d.name, S("--namespace"), d.namespace>>
        /\ diags = EmptyStr <=> \E i \in HelmIdx({S("uninstall")}) : calls[i].ok
        /\ diags = EmptyStr => id = EmptyStr
        /\ diags # EmptyStr => id = ExpectedId

C4_Witness ==
    /\ op = "delete"
    /\ diags = EmptyStr
    /\ id = EmptyStr
    /\ HelmIdx({S("uninstall")}) # {}

EmptyListing ==
    \E i \in HelmIdx({S("list")}) : calls[i].ok /\ calls[i].out = <<"[", "]">>

FailedListing ==
    \E i \in HelmIdx({S("list")}) :
        \/ ~calls[i].ok
        \/ \E r \in ListRuns : r.text = calls[i].out /\ ~r.valid

NotFoundMessage ==
    S("failed to list Helm chart: ") \o d.name

\* C5: a resource read whose listing succeeds with an empty array returns
\* the not-found error and runs no `helm get values`; a failed or
\* undecodable listing returns an error that differs from it.
C5_NotFoundIsFatal ==
    op \in {"read", "create", "update"} =>
        /\ EmptyListing =>
             /\ pc = "idle"
             /\ diags = NotFoundMessage
             /\ HelmIdx({S("get")}) = {}
        /\ FailedListing =>
             /\ pc = "idle"
             /\ diags # EmptyStr
             /\ diags # NotFoundMessage

C5_Witness ==
    /\ op = "read"
    /\ pc = "idle"
    /\ EmptyListing

SeqRange(seq) ==
    {seq[i] : i \in 1..Len(seq)}

TokenFlag ==
    S("--kube-token")

\* The tokens resolved for the commands built so far.
ResolvedTokens ==
    UNION ({SeqRange(FlagValues(calls[i].argv, TokenFlag)) : i \in HelmIdx(ClusterVerbs)}
           \cup {SeqRange(FlagValues(helmCmd, TokenFlag))})

\* C7: the resolved token appears in no log line and in no returned error
\* message.
C7_TokenRedacted ==
    \A tok \in ResolvedTokens :
        /\ \A k \in 1..Len(logs) : ~Contains(logs[k], tok)
        /\ ~Contains(diags, tok)

\* C8: with a static token configured no kube_exec command is run and every
\* command other than `helm dependency` carries exactly that token; with
\* neither configured no kube_exec command is run and no command carries a
\* token flag.
C8_StaticTokenPrecedence ==
    LET auth == config.KubeAuth
    IN  /\ auth.KubeToken # EmptyStr =>
             /\ ExecIdx = {}
             /\ \A i \in HelmIdx(ClusterVerbs) :
                  FlagValues(calls[i].argv, TokenFlag) = <<auth.KubeToken>>
        /\ (auth.KubeToken = EmptyStr /\ ~auth.KubeExec.present) =>
             /\ ExecIdx = {}
             /\ \A i \in 1..Len(calls) :
                  calls[i].kind = "helm" => FlagValues(calls[i].argv, TokenFlag) = <<>>

C8_Witness ==
    /\ config.KubeAuth.KubeToken # EmptyStr
    /\ config.KubeAuth.KubeExec.present
    /\ config.KubeAuth.KubeExec.Command # EmptyStr
    /\ \E i \in HelmIdx(InstallVerbs) : calls[i].ok

ExecOnly ==
    /\ config.KubeAuth.KubeToken = EmptyStr
    /\ config.KubeAuth.KubeExec.present

\* C9: `helm dependency` carries no token flag and is not preceded by a
\* kube_exec run; with kube_exec as the only token source every other Helm
\* command run has its own successful kube_exec run before it and carries
\* the token it produced, and a failed kube_exec run is the last effect of
\* the handler, whose error it returns.
C9_TokenPerCommand ==
    /\ \A i \in HelmIdx({S("dependency")}) :
         /\ FlagValues(calls[i].argv, TokenFlag) = <<>>
         /\ i > 1 => calls[i - 1].kind # "exec"
    /\ ExecOnly =>
         /\ \A i \in HelmIdx(ClusterVerbs) :
              /\ i > 1
              /\ Cardinality({j \in ExecIdx : j < i /\ calls[j].ok})
                     >= Cardinality({j \in HelmIdx(ClusterVerbs) : j <= i})
              /\ FlagValues(calls[i].argv, TokenFlag) \in {<<>>, <<ExecSecret>>}
         /\ \A i \in ExecIdx :
              ~calls[i].ok =>
                  /\ i = Len(calls)
                  /\ pc = "idle"
                  /\ diags = calls[i].err
         /\ config.KubeAuth.KubeExec.Command = EmptyStr =>
              /\ HelmIdx(ClusterVerbs) = {}
              /\ (pc = "idle" /\ op # "none") => diags # EmptyStr

C9_Witness ==
    /\ ExecOnly
    /\ HelmIdx({S("dependency")}) # {}
    /\ \E i \in HelmIdx(InstallVerbs) :
         FlagValues(calls[i].argv, TokenFlag) = <<ExecSecret>>

\* The listing decoded by the read that has just set the release fields.
DecodedListings ==
    {r \in ListRuns : /\ Len(calls) > 0
                      /\ r.text = calls[Len(calls)].out
                      /\ r.valid
                      /\ Len(r.list) > 0}

\* C12: for a listed chart string c that contains a hyphen the version is
\* the part of c after its last hyphen and the name the part before it, so
\* that name, a hyphen and the version make up c again.
C12_ChartSplit ==
    pc = "uservalues" =>
        \A r \in DecodedListings :
            LET c == r.list[1].chart
            IN  Contains(c, S("-")) =>
                    /\ st.release_chart_name \o S("-") \o st.release_chart_version = c
                    /\ ~Contains(st.release_chart_version, S("-"))

C12_Witness ==
    /\ pc = "uservalues"
    /\ DecodedListings # {}
    /\ st.release_chart_name = <<"my", "-", "chart">>
    /\ st.release_chart_version = S("1.0.0")

\* The string is a bare integer.
IsInteger(str) ==
    /\ str # <<>>
    /\ \A i \in 1..Len(str) : str[i] \in {"0", "1", "2", "5", "60"}

\* C13: an install/upgrade argv has no --timeout flag when timeout is
\* empty, and otherwise one --timeout flag whose value is timeout with "s"
\* appended when timeout is a bare integer and timeout itself when not.
C13_TimeoutNormalized ==
    \A i \in HelmIdx(InstallVerbs) :
        FlagValues(calls[i].argv, S("--timeout"))
            = (IF d.timeout = EmptyStr THEN <<>>
               ELSE IF IsInteger(d.timeout) THEN <<d.timeout \o S("s")>>
               ELSE <<d.timeout>>)

C13_Witness ==
    /\ d.timeout = S("60")
    /\ \E i \in HelmIdx(InstallVerbs) :
         FlagValues(calls[i].argv, S("--timeout")) = <<<<"60", "s">>>>

IsRemoteRepository ==
    \/ HasPrefix(d.chart_repository, <<"http:", "/", "/">>)
    \/ HasPrefix(d.chart_repository, <<"https:", "/", "/">>)

\* The directory that holds the cloned or downloaded charts.
ReposDir ==
    config.CacheDir \o S("/") \o S("repos")

\* The path an effect creates or writes to, EmptyStr if it has none.
TargetOf(c) ==
    CASE c.kind \in {"mkdir", "write", "rmall"} -> c.argv[1]
      [] c.kind = "get" -> c.argv[2]
      [] OTHER -> EmptyStr

ValuesFileName(entry) ==
    d.name \o S("-") \o generateHash(entry) \o S("-values.yaml")

\* C15: in every install/upgrade argv the -f path of a values_files entry
\* that begins with "." is <repository directory>/<entry>, with no fetch of
\* it, when the source is git_repository or chart_url; the -f path of every
\* other entry is a cache path with the file name
\* <name>-<hash(entry)>-values.yaml into which the entry has been fetched
\* in single-file mode.
C15_ValuesResolution ==
    \A i \in HelmIdx(InstallVerbs) :
        LET f == FlagValues(calls[i].argv, S("-f"))
        IN  \A j \in 1..Len(d.values_files) :
                LET e == d.values_files[j]
                IN  /\ j <= Len(f)
                    /\ IF HasPrefix(e, S(".")) /\ d.chart_repository = EmptyStr
                       THEN /\ f[j] = Clean(repoPath(d, config) \o S("/") \o e)
                            /\ GetIdx(e) = {}
                       ELSE /\ HasPrefix(f[j], config.CacheDir \o S("/") \o S("values"))
                            /\ HasSuffix(f[j], S("/") \o ValuesFileName(e))
                            /\ \A k \in GetIdx(e) :
                                 calls[k].argv = <<e, f[j], S("ClientModeFile")>>
                            /\ \E k \in GetIdx(e) : k < i /\ calls[k].ok

\* The same for the retry counts that let the download loop run.
C15_WithAttempts ==
    d.max_retries >= 0 => C15_ValuesResolution

\* The directory the chart of the release is cloned or downloaded into.
RepoDir ==
    ReposDir \o S("/") \o d.name \o S("-") \o generateHash(d.git_repository \o d.chart_url)

Below(dir) ==
    {p \in fs : HasPrefix(p, dir \o S("/"))}

\* C16: when a create or update with git_repository is about to clone, the
\* repository directory exists and is empty, a directory found there
\* having been removed before; with chart_url nothing is removed.
C16_CloneStartsClean ==
    InCreateOrUpdate =>
        /\ (d.git_repository # EmptyStr /\ pc = "clone") =>
               /\ RepoDir \in fs
               /\ Below(RepoDir) = {}
        /\ \A i \in 1..Len(calls) :
               /\ calls[i].kind = "rmall" =>
                      /\ d.git_repository # EmptyStr
                      /\ calls[i].argv = <<RepoDir>>
                      /\ i = 1
               /\ calls[i].kind = "git" =>
                      \E j \in 1..(i - 1) : calls[j] = Call("mkdir", <<RepoDir>>, TRUE)
        /\ d.chart_url # EmptyStr => \A i \in 1..Len(calls) : calls[i].kind # "rmall"

C16_Witness ==
    /\ InCreateOrUpdate
    /\ d.git_repository # EmptyStr
    /\ pc = "clone"
    /\ calls[1].kind = "rmall"
    /\ Below(RepoDir) = {}

\* The step of create/update an external effect belongs to: 1 source fetch,
\* 2 dependency build, 3 values, 4 post-renderer, 5 install/upgrade,
\* 6 listing, 7 user values, 8 all values; 0 for waits and token commands.
Stage(c) ==
    CASE c.kind \in {"sleep", "exec"} -> 0
      [] c.kind = "git" -> 1
      [] c.kind \in {"mkdir", "rmall"} /\ c.argv[1] = RepoDir -> 1
      [] c.kind = "get" /\ d.chart_url # EmptyStr /\ c.argv[1] = d.chart_url -> 1
      [] IsHelm(c, {S("dependency")}) -> 2
      [] c.kind = "get" /\ c.argv[1] \in SeqRange(d.values_files) -> 3
      [] c.kind \in {"mkdir", "write"}
         /\ HasPrefix(c.argv[1], config.CacheDir \o S("/") \o S("values")) -> 3
      [] c.kind \in {"get", "chmod", "mkdir", "write"} -> 4
      [] IsHelm(c, InstallVerbs) -> 5
      [] IsHelm(c, {S("list")}) -> 6
      [] IsHelm(c, {S("get")}) /\ S("-a") \notin SeqRange(c.argv) -> 7
      [] OTHER -> 8

Steps ==
    {i \in 1..Len(calls) : Stage(calls[i]) > 0}

\* A later attempt at the same fetch follows the effect.
Retried(i) ==
    \E j \in (i + 1)..Len(calls) : calls[j].kind = "get" /\ calls[j].argv = calls[i].argv

SourceFetched(i) ==
    \E j \in 1..(i - 1) :
        /\ calls[j].ok
        /\ \/ calls[j].kind = "git"
           \/ calls[j].kind = "get" /\ calls[j].argv[1] = d.chart_url

\* The order of the steps, and a failed step ending the handler.
StepsInOrder ==
    /\ LET stages == SelectSeq([i \in 1..Len(calls) |-> Stage(calls[i])],
                               LAMBDA r : r > 0)
       IN  \A k \in 1..(Len(stages) - 1) : stages[k] <= stages[k + 1]
    /\ \A i \in 1..Len(calls) :
         (~calls[i].ok /\ ~Retried(i) /\ Stage(calls[i]) > 0) =>
             /\ \A j \in (i + 1)..Len(calls) : Stage(calls[j]) = 0
             /\ pc \in {"idle", "download", "valuesfile"}
             /\ pc = "idle" => diags # EmptyStr
    /\ \A i \in HelmIdx(InstallVerbs) :
         d.chart_repository = EmptyStr =>
             \E j \in HelmIdx({S("dependency")}) : j < i /\ calls[j].ok
    /\ \A i \in HelmIdx({S("list")}) :
         \E j \in HelmIdx(InstallVerbs) : j < i /\ calls[j].ok

\* C17: the external steps of create/update run in the order source fetch,
\* dependency build, values, post-renderer, install/upgrade, read; a step
\* that fails ends the handler with an error and no later step runs; for a
\* git or chart_url source install/upgrade runs only after dependency build
\* has succeeded, and dependency build only after the source fetch has
\* succeeded whenever the download loop makes an attempt.
C17_StepOrder ==
    InCreateOrUpdate =>
        /\ StepsInOrder
        /\ d.max_retries >= 0 => \A i \in HelmIdx({S("dependency")}) : SourceFetched(i)

C17_Witness ==
    /\ InCreateOrUpdate
    /\ pc = "idle"
    /\ diags = EmptyStr
    /\ {Stage(calls[i]) : i \in Steps} = 1..8

\* The effect is an attempt at a remote fetch.
IsFetch(c) ==
    c.kind \in {"git", "get"}

\* The attempts made at the fetch of effect i.
AttemptsOf(i) ==
    {j \in 1..Len(calls) : calls[j].kind = calls[i].kind /\ calls[j].argv = calls[i].argv}

\* C18: with max_retries = N >= 0, whenever create/update has returned an
\* error after a failed git clone, chart download, values-file download or
\* post-renderer download, N+1 attempts at that fetch have been made.
C18_AllFetchesRetried ==
    (InCreateOrUpdate /\ pc = "idle" /\ d.max_retries >= 0) =>
        \A i \in 1..Len(calls) :
            (IsFetch(calls[i]) /\ \A j \in AttemptsOf(i) : ~calls[j].ok) =>
                Cardinality(AttemptsOf(i)) = d.max_retries + 1

\* The fetches that go through a retry loop are the chart download and the
\* values-file downloads.
C18_LoopFetchesRetried ==
    (InCreateOrUpdate /\ pc = "idle" /\ d.max_retries >= 0) =>
        \A i \in 1..Len(calls) :
            (calls[i].kind = "get" /\ calls[i].argv[1] # d.post_renderer_url
             /\ \A j \in AttemptsOf(i) : ~calls[j].ok) =>
                Cardinality(AttemptsOf(i)) = d.max_retries + 1

\* The post-renderer command string after the download step.
CommandString ==
    IF d.post_renderer # EmptyStr THEN d.post_renderer
    ELSE IF d.post_renderer_url # EmptyStr
    THEN config.CacheDir \o S("/") \o S("postrender") \o S("/")
         \o generateHash(d.post_renderer_url) \o S("/") \o S("postrender")
         \o S("/") \o S("renderer")
    ELSE EmptyStr

Program ==
    Split(CommandString, " ")[1]

ProgramArgs ==
    Tail(Split(CommandString, " "))

PluginName ==
    S("terrahelm-postrender-")
    \o generateHash(Program \o S("\\x00") \o Join(ProgramArgs, S("\\x00"))
                    \o S("\\x00") \o d.post_renderer_url)

PluginManifest ==
    Call("write",
         <<config.CacheDir \o S("/") \o S("helm") \o S("/") \o S("plugins") \o S("/")
           \o PluginName \o S("/") \o S("plugin.yaml"),
           S("plugin.yaml:") \o PluginName \o S(" command:") \o Program
           \o S(" args:") \o Join(ProgramArgs, S(","))>>,
         TRUE)

\* The post-renderer flags of an argv for a command string with a program.
FlagFormOf(i) ==
    LET argv == calls[i].argv
        pr == FlagValues(argv, S("--post-renderer"))
    IN  /\ Len(pr) = 1
        /\ IF config.HelmMajor >= 4
           THEN /\ pr[1] = PluginName
                /\ S("--post-renderer-args") \notin SeqRange(argv)
                /\ \E j \in 1..(i - 1) : calls[j] = PluginManifest
           ELSE /\ pr[1] = Program
                /\ IF Len(ProgramArgs) > 0
                   THEN Contains(argv, <<S("--post-renderer"), Program,
                                         S("--post-renderer-args")>> \o ProgramArgs)
                   ELSE S("--post-renderer-args") \notin SeqRange(argv)

\* C19: whenever post_renderer or post_renderer_url is set an install/upgrade
\* argv has exactly one --post-renderer flag: for Helm 4 and later the name
\* of a plugin whose plugin.yaml, holding the program and its arguments,
\* has been written under a directory named from the hash of command,
\* arguments and URL, with no --post-renderer-args; for earlier versions
\* the program, followed by --post-renderer-args and the arguments only
\* when there are arguments.  When neither is set there is no such flag.
C19_PostRendererFlags ==
    \A i \in HelmIdx(InstallVerbs) :
        IF CommandString = EmptyStr
        THEN /\ S("--post-renderer") \notin SeqRange(calls[i].argv)
             /\ S("--post-renderer-args") \notin SeqRange(calls[i].argv)
        ELSE FlagFormOf(i)

\* The same for command strings that do not begin with a space.
C19_WithProgram ==
    \A i \in HelmIdx(InstallVerbs) :
        IF CommandString = EmptyStr
        THEN /\ S("--post-renderer") \notin SeqRange(calls[i].argv)
             /\ S("--post-renderer-args") \notin SeqRange(calls[i].argv)
        ELSE Program # EmptyStr => FlagFormOf(i)

\* The operation flags in the order the handler appends them.
AppendOrder ==
    <<S("--repo"), S("-f"), S("--namespace"), S("--create-namespace"), S("--version"),
      S("--wait"), S("--atomic"), S("--debug"), S("--timeout"), S("--post-renderer")>>

\* The order with the value-file flags after --version.
ClaimedOrder ==
    <<S("--repo"), S("--namespace"), S("--create-namespace"), S("--version"), S("-f"),
      S("--wait"), S("--atomic"), S("--debug"), S("--timeout"), S("--post-renderer")>>

\* The place of a flag in an order, 0 for what is not in it.
Rank(x, order) ==
    IF \E a \in 1..Len(order) : order[a] = x
    THEN CHOOSE a \in 1..Len(order) : order[a] = x
    ELSE IF x = S("--post-renderer-args") THEN Len(order) + 1
    ELSE 0

\* The argv ends with the custom arguments, and before them every
\* occurrence of a flag comes before every occurrence of the flags that
\* follow it in the order.
FollowsOrder(argv, order) ==
    LET n == Len(argv) - Len(d.custom_args)
        ranks == SelectSeq([p \in 1..n |-> Rank(argv[p], order)], LAMBDA r : r > 0)
    IN  /\ n >= 0
        /\ SubSeq(argv, n + 1, Len(argv)) = d.custom_args
        /\ \A k \in 1..(Len(ranks) - 1) : ranks[k] <= ranks[k + 1]

FailedHelmRuns ==
    {i \in 1..Len(calls) : calls[i].kind = "helm" /\ ~calls[i].ok}

\* C21: a Helm command that exits non-zero ends the handler with an error
\* whose message contains the standard error the command wrote and, when
\* debug is set, its standard output.
C21_HelmErrorHasOutput ==
    \A i \in FailedHelmRuns :
        /\ i = Len(calls)
        /\ pc = "idle"
        /\ Contains(diags, calls[i].stderr)
        /\ d.debug => Contains(diags, calls[i].out)

\* The same for the commands whose error message is built from the captured
\* streams: dependency build, install, upgrade and uninstall carry the
\* standard error, install and upgrade the standard output under debug.
C21_CapturedStreams ==
    \A i \in FailedHelmRuns :
        /\ i = Len(calls)
        /\ pc = "idle"
        /\ diags # EmptyStr
        /\ ~IsHelm(calls[i], {S("list"), S("get")}) => Contains(diags, calls[i].stderr)
        /\ (d.debug /\ IsHelm(calls[i], InstallVerbs)) => Contains(diags, calls[i].out)

\* The source fields that are set.
SourcesSet ==
    {f \in {"chart_repository", "git_repository", "chart_url"} : d[f] # EmptyStr}

ValidSources ==
    /\ Cardinality(SourcesSet) = 1
    /\ d.git_reference # EmptyStr => d.git_repository # EmptyStr

\* C22: a release with none or several sources, or a git_reference without
\* git_repository, is rejected by the validation, and create/update called
\* on it returns an error before any external call is made.
C22_RejectedBeforeCalls ==
    /\ op = "plan" => (diags = EmptyStr <=> ValidSources)
    /\ (InCreateOrUpdate /\ ~ValidSources) =>
           /\ pc = "idle"
           /\ diags # EmptyStr
           /\ calls = <<>>

\* The validation alone: CustomizeDiff accepts exactly the releases with
\* one source and no git_reference without git_repository.
C22_ValidationExact ==
    op = "plan" => (diags = EmptyStr <=> ValidSources)

\* The leaves of a decoded value with the key paths that lead to them.
RECURSIVE LeavesOf(_, _)
LeavesOf(v, path) ==
    IF v.t = "obj"
    THEN UNION {LeavesOf(v.o[k], Append(path, k)) : k \in DOMAIN v.o}
    ELSE {<<path, v>>}

Leaves ==
    LeavesOf(jsonIn, <<>>)

DottedKey(path) ==
    Join(path, S("."))

\* The text of a leaf: a string as it is, a number or boolean as its JSON
\* literal or as the shortest form of its value, an array element by element.
TextForms(v) ==
    CASE v.t = "str" -> {v.s}
      [] v.t = "num" -> {v.s, FormatFloat(v.s)}
      [] OTHER -> {Sprintv(v)}

FlattenedExactly ==
    /\ DOMAIN jsonOut = {DottedKey(l[1]) : l \in Leaves}
    /\ Cardinality(DOMAIN jsonOut) = Cardinality(Leaves)
    /\ \A l \in Leaves : jsonOut[DottedKey(l[1])] \in TextForms(l[2])
    /\ Cardinality(jsonMapToStringMap(jsonIn.o)) = 1

\* C23: the map returned has one entry per non-object leaf, its key the
\* dotted key path and its value the text of the leaf, has no other entry,
\* and is the only map the function can return for the input.
C23_FlattenExact ==
    pc = "flattened" => FlattenedExactly

\* The same for values in which no two leaves have the same dotted key path.
C23_DistinctPaths ==
    (pc = "flattened"
     /\ \A l1, l2 \in Leaves : DottedKey(l1[1]) = DottedKey(l2[1]) => l1 = l2)
        => FlattenedExactly

\* C24: whatever create/update calls have written at one cache path is the
\* same in content and in kind.
C24_SamePathSameContent ==
    \A a, b \in cache : a.path = b.path => (a.kind = b.kind /\ a.content = b.content)

\* The same for what the provider generates itself: the directories, the
\* inline values file and plugin.yaml.
C24_GeneratedArtifacts ==
    \A a, b \in cache :
        (a.path = b.path /\ a.origin = "generated" /\ b.origin = "generated") =>
            (a.kind = b.kind /\ a.content = b.content)

\* Every file system effect of a create/update call is one of the artifacts.
C24_ArtifactsOfCalls ==
    InCreateOrUpdate =>
        \A i \in 1..Len(calls) :
            (calls[i].kind \in {"write", "mkdir"} /\ calls[i].argv[1] # repoPath(d, config)) =>
                \E body \in RemoteBodies : \E a \in Artifacts(d, config, body) :
                    /\ a.path = calls[i].argv[1]
                    /\ a.kind = (IF calls[i].kind = "mkdir" THEN "dir" ELSE "file")
                    /\ calls[i].kind = "write" => a.content = calls[i].argv[2]

Sleeps ==
    {i \in 1..Len(calls) : calls[i].kind = "sleep"}

\* C25: the retry loop sleeps only between two attempts: every sleep is
\* followed by another attempt at the same fetch, so none follows the last
\* attempt and none occurs with max_retries = 0.
C25_SleepOnlyBetween ==
    InCreateOrUpdate =>
        /\ \A i \in Sleeps :
             IF i < Len(calls)
             THEN calls[i + 1].kind = "get" /\ calls[i + 1].argv = calls[i - 1].argv
             ELSE pc \in {"download", "valuesfile"}
        /\ d.max_retries = 0 => Sleeps = {}

\* What the loops do: a sleep follows every failed attempt of a retry loop,
\* the last one included, and nothing else.
C25_SleepAfterFailure ==
    InCreateOrUpdate =>
        /\ \A i \in Sleeps : i > 1 /\ calls[i - 1].kind = "get" /\ ~calls[i - 1].ok
        /\ \A i \in 1..Len(calls) :
             (calls[i].kind = "get" /\ ~calls[i].ok
              /\ calls[i].argv[1] # d.post_renderer_url) =>
                 i + 1 \in Sleeps

\* A string setting is set when it is not empty and its flag takes it as
\* value; a boolean setting is set when TRUE and its flag takes no value.
StringSetting(flag, value) ==
    [flag |-> S(flag), set |-> value # EmptyStr, args |-> <<value>>]

BoolSetting(flag, value) ==
    [flag |-> S(flag), set |-> value, args |-> <<>>]

\* The settings of the provider with their flags, in the order of the flags;
\* the token is the one resolved for the command, EmptyStr if none was.
AuthSettings(token) ==
    <<StringSetting("--kube-apiserver", config.KubeAuth.KubeAPIServer),
      StringSetting("--kube-as-user", config.KubeAuth.KubeAsUser),
      StringSetting("--kube-as-group", config.KubeAuth.KubeAsGroup),
      StringSetting("--kube-ca-file", config.KubeAuth.KubeCAFile),
      StringSetting("--kube-context", config.KubeAuth.KubeContext),
      BoolSetting("--kube-insecure-skip-tls-verify",
                  config.KubeAuth.KubeInsecureSkipTLSVerify),
      StringSetting("--kube-tls-server-name", config.KubeAuth.KubeTLSServerName),
      StringSetting("--kube-token", token),
      StringSetting("--kubeconfig", config.KubeAuth.Kubeconfig)>>

\* The flags of the settings that are set, in the order of the settings.
RECURSIVE FlagsOf(_)
FlagsOf(settings) ==
    IF settings = <<>> THEN <<>>
    ELSE (IF Head(settings).set THEN <<Head(settings).flag>> \o Head(settings).args
          ELSE <<>>)
         \o FlagsOf(Tail(settings))

\* The token a command is given: none for dependency build, the static token
\* when there is one, else the token the exec-credential command printed.
TokenOf(args) ==
    IF args[1] = S("dependency") THEN EmptyStr
    ELSE IF config.KubeAuth.KubeToken # EmptyStr THEN config.KubeAuth.KubeToken
    ELSE IF config.KubeAuth.KubeExec.present THEN ExecSecret
    ELSE EmptyStr

\* C26: a command that is built consists of the Helm binary, the arguments
\* of the handler and then the flags of the settings that are set, in the
\* order --kube-apiserver, --kube-as-user, --kube-as-group, --kube-ca-file,
\* --kube-context, --kube-insecure-skip-tls-verify, --kube-tls-server-name,
\* --kube-token, --kubeconfig, whatever the command is; the token is that
\* resolved for the command, and dependency build has none.
C26_AuthFlagOrder ==
    (pc = "built" /\ diags = EmptyStr) =>
        helmCmd = <<S("helm")>> \o helmArgs \o FlagsOf(AuthSettings(TokenOf(helmArgs)))

C26_Witness ==
    /\ pc = "built"
    /\ diags = EmptyStr
    /\ helmArgs[1] = S("install")
    /\ config.KubeAuth.KubeToken = EmptyStr
    /\ Len(calls) = 1
    /\ calls[1].kind = "exec"
    /\ Len(helmCmd) = Len(helmArgs) + 18
    /\ helmCmd[Len(helmCmd) - 2] = ExecSecret
    /\ helmCmd[Len(helmCmd) - 1] = S("--kubeconfig")

\* The source was fetched before effect i: an attempt at it was made and
\* the last attempt made succeeded.
FetchedBefore(src, i) ==
    /\ GetIdx(src) # {}
    /\ Max(GetIdx(src)) < i
    /\ calls[Max(GetIdx(src))].ok

\* The values files that are not resolved inside a repository directory.
FetchedValuesFiles ==
    {d.values_files[k] : k \in {j \in 1..Len(d.values_files) :
                                  ~isLocalValuesFile(d, config, d.values_files[j])}}

DownloadBeforeUse ==
    /\ d.chart_url # EmptyStr =>
           /\ pc = "depbuild" => GetIdx(d.chart_url) # {}
           /\ \A i \in HelmIdx({S("dependency")} \cup InstallVerbs) :
                FetchedBefore(d.chart_url, i)
    /\ \A i \in HelmIdx(InstallVerbs) :
         \A vf \in FetchedValuesFiles : FetchedBefore(vf, i)

\* C27: whatever max_retries is, a chart_url create/update attempts the
\* download at least once and runs dependency build and install/upgrade
\* only after the last attempt succeeded, and install/upgrade is given a
\* fetched values file only after the last attempt at it succeeded.
C27_DownloadBeforeUse ==
    InCreateOrUpdate => DownloadBeforeUse

\* The same for max_retries that is not negative.
C27_NonNegativeRetries ==
    (InCreateOrUpdate /\ d.max_retries >= 0) => DownloadBeforeUse

\* What parseKubeExecToken can return for the output that was parsed.
TokenResults ==
    parseKubeExecToken(Stdout(TrimSpace(tokIn.text), tokIn.parsed))

\* C28: the token or error returned for an exec-credential output is the
\* only one the function can return for it, whatever the order in which the
\* keys of the JSON objects are ranged over.
C28_Deterministic ==
    pc = "parsed" => TokenResults = {tokOut}

\* The same for outputs in which no two keys of an object share a normal
\* form and the token is at a preferred path or is the only one there is.
C28_UnambiguousOutputs ==
    (pc = "parsed"
     /\ UniqueKeys(tokIn.parsed)
     /\ (PathHits(tokIn.parsed) # {} \/ Cardinality(DeepTokens(tokIn.parsed)) <= 1))
        => TokenResults = {tokOut}

\* Two tokens under different sub-objects, neither at a preferred path.
C28_NestedOnly ==
    ~(/\ pc = "parsed"
      /\ UniqueKeys(tokIn.parsed)
      /\ tokIn.parsed.t = "obj"
      /\ PathHits(tokIn.parsed) = {}
      /\ Cardinality(TokenResults) > 1)

\* The positions of resourceHelmReleaseRead.
ReadPositions ==
    {"list", "uservalues", "allvalues"}

\* C29: a read that returns an error leaves release_chart_name,
\* release_chart_version, release_revision, release_status, values and
\* release_values unchanged.  Stated for the first handler call, before
\* which none of the fields was set: when it has returned an error, the
\* fields are as they were before it.
C29_FailedReadKeepsState ==
    (nOps = 1 /\ pc = "idle" /\ diags # EmptyStr) => st = NoState

\* The fields change only in the steps of a read, and the step that
\* returns the error changes none of them.
C29_FailingStepKeepsState ==
    [][/\ st' # st => pc \in ReadPositions
       /\ (pc \in ReadPositions /\ pc' = "idle" /\ diags' # EmptyStr) => st' = st]_vars

\* The first call was a read that set the four listing fields and then
\* failed at helm get values.
C29_PartialRead ==
    ~(/\ nOps = 1 /\ pc = "idle" /\ diags # EmptyStr
      /\ st.release_status # EmptyStr
      /\ st.values = EmptyStr
      /\ st.release_values = <<>>)

\* A call that has been entered and has not returned.
InFlight(p) ==
    inflight[p].pc \notin {"idle", "done"}

SameNameAndSource(p, q) ==
    /\ inflight[p].r.name = inflight[q].r.name
    /\ inflight[p].r.git_repository \o inflight[p].r.chart_url
         = inflight[q].r.git_repository \o inflight[q].r.chart_url

SameNameAndHash(p, q) ==
    /\ inflight[p].r.name = inflight[q].r.name
    /\ generateHash(inflight[p].r.git_repository \o inflight[p].r.chart_url)
         = generateHash(inflight[q].r.git_repository \o inflight[q].r.chart_url)

SharedRepoPath(p, q) ==
    repoPath(inflight[p].r, config) = repoPath(inflight[q].r, config)

\* C30: two create/update calls in flight at the same time have the same
\* <cache>/repos/<name>-<hash> directory, so that the delete, recreate and
\* clone of one touches the directory the other uses, only if their
\* releases have the same name and the same git_repository+chart_url
\* string.
C30_SharedOnlySameSource ==
    \A p \in DOMAIN inflight : \A q \in DOMAIN inflight \ {p} :
        (InFlight(p) /\ InFlight(q) /\ SharedRepoPath(p, q)) => SameNameAndSource(p, q)

\* The directory is shared exactly by the calls whose releases have the
\* same name and the same 8 hex digits of the hash, whatever the namespace.
C30_SharedIffSameHash ==
    \A p \in DOMAIN inflight : \A q \in DOMAIN inflight \ {p} :
        SharedRepoPath(p, q) <=> SameNameAndHash(p, q)

\* A call that cloned one repository installed the chart of another one:
\* the other call removed the directory and cloned into it in between.
C30_InstalledForeignChart ==
    ~(\E p \in DOMAIN inflight : \E q \in DOMAIN inflight \ {p} :
        /\ inflight[p].pc = "done"
        /\ inflight[p].err = EmptyStr
        /\ inflight[p].r.git_repository = GitRepo75030
        /\ inflight[q].r.git_repository = GitRepo128089
        /\ inflight[p].chart = {GitRepo128089})

====
